---- MODULE Spec2Model ----
(***************************************************************************)
(* Spaced-repetition scheduler and tutoring-session engine of echo-app.    *)
(*                                                                         *)
(* Time is counted in minutes.  A request handler reads the clock several  *)
(* times, and each read may give a later time than the one before it.      *)
(*                                                                         *)
(* The handlers are coroutines on one event loop.  A chat request on a     *)
(* card gives up control where send_message awaits the agent, so it is two *)
(* steps: TurnArrive up to the await, TurnResume from the answer of the    *)
(* agent on.  Between the two, other requests of the same key run on the   *)
(* same session object.                                                    *)
(***************************************************************************)
EXTENDS Integers, Sequences, FiniteSets, Bags, TLC

VARIABLES
    now,        \* wall clock (utc_now_iso), minutes
    cards,      \* card repository: card id -> stored card document
    store,      \* SessionStore._cache: the stored AgentSessionState of each present key
    turns,      \* key -> card-mode turns since the active card was activated: those
                \* submitted, and those the agent has answered
    flight,     \* the chat requests that wait for the agent inside send_message, each
                \* with the local variables of its handler (a bag: they are answered
                \* in any order)
    overlap,    \* number of steps other requests have taken while the requests of
                \* flight wait
    faults,     \* number of writes the card repository has refused
    ev,         \* what the last operation did (inputs, intermediate results)
    resp,       \* the response of the last operation
    configured, \* whether the agent client can be constructed (its environment is set)
    deck_repo,  \* what get_deck_repository returns: the class of the deck repository
    obj,        \* a single AgentSessionState driven through its methods
    objRes,     \* the AddMessageResult of the last add_message on obj
    msgSeq,     \* number of messages appended to obj so far
    sinceClear, \* number of messages appended to obj since its history was last cleared
    reveals,    \* key -> explicit reveal requests sent to the agent since the active
                \* card was activated
    cache,      \* a SessionStore with its expiry times and its capacity (TTLCache)
    sres,       \* the result of the last operation on cache
    touched,    \* key -> time of the last get, get_or_create or update that found or
                \* stored the entry of the key in cache (NoTime: none since it was removed)
    lock,       \* SessionStore._lock: the request that holds it (None: free)
    tpc,        \* a chat request: where it is in its handler, and the session it holds
    opc,        \* another request: the store operation it is calling
    call,       \* the last call of a spaced-repetition function: its arguments and
                \* what it returned or raised
    conc        \* chat requests in flight on one event loop: where each of them is,
                \* what it holds, and the grades they persisted

vars == <<now, cards, store, turns, flight, overlap, faults, ev, resp, configured,
          deck_repo, obj, objRes, msgSeq, sinceClear, reveals, cache, sres, touched,
          lock, tpc, opc, call, conc>>

coreVars == <<now, cards, store, turns, flight, overlap, faults, ev, resp, configured,
              deck_repo, reveals>>
objVars == <<obj, objRes, msgSeq, sinceClear>>
cacheVars == <<cache, sres, touched>>
lockVars == <<lock, tpc, opc>>
srsVars == <<call>>
concVars == <<conc>>

----------------------------------------------------------------------------
\* Bounds of the model

MaxTicks == 1        \* clock steps; one step is the shortest due-date offset
MaxAttempts == 4     \* no further turn against a card once attempt_count is this high
MaxReveal == 2       \* no further explicit reveal request once the count is this high
MaxResolvedTurns == 1 \* turns handled against a card that is already resolved
MaxStoreTicks == 2   \* clock steps of the store with expiry; one step is half a TTL
MaxAwaitTurns == 1   \* chat requests handled next to the other request
MaxStoreTurns == 1   \* turns recorded in a session of the store with expiry
MaxMsgs == 13        \* appends to the single session object
MaxGradeAttempts == 6 \* largest attempt count passed to compute_grade on its own
MaxGradings == 4     \* gradings submitted one after the other
MaxConcTurns == 3    \* chat requests that are in flight together
MaxInFlight == 2     \* chat requests of one key that wait for the agent at the same time
MaxOverlap == 1      \* steps of other requests while chat requests wait for the agent
MaxFaults == 1       \* writes the card repository refuses

----------------------------------------------------------------------------
\* Program constants

CARD_MODE_MAX_MESSAGES == 6
FREE_MODE_MAX_MESSAGES == 10
REVEAL_THRESHOLD == 2
AGAIN_MINUTES == 2
HARD_MINUTES == 10
GOOD_MINUTES == 1440         \* 24 hours
EASY_MINUTES == 5760         \* 4 days

TTL_MINUTES == 30           \* DEFAULT_TTL_SECONDS = 30 * 60
\* the clock is observed at multiples of the shortest due-date offset
TickStep == AGAIN_MINUTES
MaxNow == MaxTicks * TickStep

None == "None"
NoTime == -1

Keys == {"k1"}
CardIds == {"c1", "c2"}
Grades == {"again", "hard", "good", "easy"}

----------------------------------------------------------------------------
\* AgentSessionState

Min(a, b) == IF a < b THEN a ELSE b
Max(a, b) == IF a > b THEN a ELSE b

\* a window that keeps the oldest n entries
FirstN(s, n) == IF Len(s) <= n THEN s ELSE SubSeq(s, 1, n)

\* s[-n:] of a Python list
LastN(s, n) == IF Len(s) <= n THEN s ELSE SubSeq(s, Len(s) - n + 1, Len(s))

\* f"{user_id}:{deck_id}:{created_at}"
combined(user_id, deck_id, created_at) == user_id \o ":" \o deck_id \o ":" \o created_at

\* uuid.uuid5(namespace, name): the digest of the name under the fixed namespace;
\* two names have the same digest only if they are the same name
uuid5(name) == <<"uuid5", name>>

generate_conversation_id(user_id, deck_id, created_at) ==
    uuid5(combined(user_id, deck_id, created_at))

\* the sessions of the handlers belong to one learner: a store key is the pair of
\* that learner and a deck, named by the deck
Learner == "u1"

\* _utc_now_iso: the clock reading as text
utc_now_text(t) == ToString(t)

ChatMessage(role, content) == [role |-> role, content |-> content]

is_resolved(s) == s.resolved_at # NoTime

\* add_message with the rollover signal raised in card mode too
add_message_card_signals(s, role, content) ==
    LET appended == Append(s.msgs, ChatMessage(role, content))
        max_messages == IF s.mode = "card" THEN CARD_MODE_MAX_MESSAGES
                        ELSE FREE_MODE_MAX_MESSAGES
        trim == Len(appended) > max_messages
    IN [state |-> [s EXCEPT !.msgs = IF trim THEN LastN(appended, max_messages)
                                     ELSE appended],
        window_rolled_over |-> trim]

add_message(s, role, content) ==
    LET appended == Append(s.msgs, ChatMessage(role, content))
        max_messages == IF s.mode = "card" THEN CARD_MODE_MAX_MESSAGES
                        ELSE FREE_MODE_MAX_MESSAGES
        trim == Len(appended) > max_messages
    IN [state |-> [s EXCEPT !.msgs = IF trim THEN LastN(appended, max_messages)
                                     ELSE appended],
        window_rolled_over |-> (s.mode # "card" /\ trim)]

reset_agent_context(s) ==
    [s EXCEPT !.msgs = << >>,
              !.attempt_count = 0,
              !.resolved_at = NoTime,
              !.explicit_reveal_request_count = 0,
              !.revealed = FALSE,
              !.is_correct = FALSE]

\* a start_card that switches the card without resetting the context
start_card_no_reset(s, card_id) ==
    [s EXCEPT !.mode = "card", !.card_id = card_id]

\* a start_card that begins a new conversation for the card
start_card_new_conversation(s, card_id) ==
    reset_agent_context([s EXCEPT !.mode = "card", !.card_id = card_id,
                                  !.ui_conversation_id =
                                      generate_conversation_id(Learner, card_id,
                                                               utc_now_text(s.created_at))])

start_card(s, card_id) ==
    reset_agent_context([s EXCEPT !.mode = "card", !.card_id = card_id])

\* a start_free_mode that leaves the card id behind
start_free_mode_keep_card(s) ==
    reset_agent_context([s EXCEPT !.mode = "free"])

start_free_mode(s) ==
    reset_agent_context([s EXCEPT !.mode = "free", !.card_id = None])

\* AgentSessionState(ui_conversation_id, created_at) with the dataclass defaults
AgentSessionState(conversation_id, created_at) ==
    [ui_conversation_id |-> conversation_id,
     created_at |-> created_at,
     mode |-> "card",
     card_id |-> None,
     attempt_count |-> 0,
     resolved_at |-> NoTime,
     msgs |-> << >>,
     explicit_reveal_request_count |-> 0,
     revealed |-> FALSE,
     is_correct |-> FALSE]

create_session(k, card_id, t) ==
    LET state == AgentSessionState(
                     generate_conversation_id(Learner, k, utc_now_text(t)), t)
    IN IF card_id # None THEN start_card(state, card_id)
       ELSE start_free_mode(state)

----------------------------------------------------------------------------
\* The session object driven through its methods

NoRes == [op |-> "none", window_rolled_over |-> FALSE, pre |-> << >>, msg |-> None]

ObjAddMessage(role) ==
    /\ msgSeq < MaxMsgs
    /\ LET r == add_message(obj, role, msgSeq + 1)
       IN /\ obj' = r.state
          /\ objRes' = [op |-> "add", window_rolled_over |-> r.window_rolled_over,
                        pre |-> obj.msgs, msg |-> ChatMessage(role, msgSeq + 1)]
    /\ msgSeq' = msgSeq + 1
    /\ sinceClear' = sinceClear + 1
    /\ UNCHANGED <<coreVars, cacheVars, lockVars, srsVars, concVars>>

ObjStartCard(c) ==
    /\ obj' = start_card(obj, c)
    /\ objRes' = [NoRes EXCEPT !.op = "start_card"]
    /\ sinceClear' = 0
    /\ UNCHANGED <<msgSeq, coreVars, cacheVars, lockVars, srsVars, concVars>>

ObjStartFreeMode ==
    /\ obj' = start_free_mode(obj)
    /\ objRes' = [NoRes EXCEPT !.op = "start_free_mode"]
    /\ sinceClear' = 0
    /\ UNCHANGED <<msgSeq, coreVars, cacheVars, lockVars, srsVars, concVars>>

ObjResetAgentContext ==
    /\ obj' = reset_agent_context(obj)
    /\ objRes' = [NoRes EXCEPT !.op = "reset_agent_context"]
    /\ sinceClear' = 0
    /\ UNCHANGED <<msgSeq, coreVars, cacheVars, lockVars, srsVars, concVars>>

----------------------------------------------------------------------------
\* Spaced-repetition functions

\* no spaced-repetition function was called yet
NoSrsCall == [fn |-> "none"]

\* no chat request has arrived
NoConc == [reqs |-> << >>, grades |-> << >>, calls |-> {}, activation |-> 0]

\* Python floats are IEEE-754 doubles.  A float is written here as its exact value
\* in five limbs <<a0, a1, a2, a3, a4>>: a0 + a1/2^15 + a2/2^30 + a3/2^45 + a4/2^60
\* with 0 <= a1..a4 < 2^15 (a0 < 0 for a negative value), and every operation
\* rounds its exact result to the nearest double, ties to even, as the hardware does.
LimbBase == 2 ^ 15

\* the position of the leading bit of n > 0
FloorLog2(n) == CHOOSE e \in 0 .. 29 : n \div (2 ^ e) = 1

\* a float as five limbs: an int and four limbs of 15 bits below the point
Limbs == [1 .. 5 -> Int]

\* limbs that left 0 .. 2^15 - 1 are brought back by carrying into the next limb
Carry[x \in Limbs] ==
    LET a4 == x[5]
        a3 == x[4] + (a4 \div LimbBase)
        a2 == x[3] + (a3 \div LimbBase)
        a1 == x[2] + (a2 \div LimbBase)
        a0 == x[1] + (a1 \div LimbBase)
    IN <<a0, a1 % LimbBase, a2 % LimbBase, a3 % LimbBase, a4 % LimbBase>>

FloatNeg[x \in Limbs] == Carry[<<0 - x[1], 0 - x[2], 0 - x[3], 0 - x[4], 0 - x[5]>>]

\* x < y
FloatLess(x, y) ==
    \E i \in 1 .. 5 : x[i] < y[i] /\ \A j \in 1 .. i - 1 : x[j] = y[j]

\* The double nearest to the exact value x >= 0; inexact: x stands for a value
\* slightly above it.  A double has 53 significant bits, so the last place of a
\* value with leading bit 2^e is 2^(e - 52), which is 2^(e + 8) in units of 2^-60.
RoundToDouble[x \in Limbs, inexact \in BOOLEAN] ==
    LET e == IF x[1] > 0 THEN FloorLog2(x[1])
             ELSE IF x[2] > 0 THEN FloorLog2(x[2]) - 15
             ELSE 0 - 8
        k == e + 8
        low == x[4] * LimbBase + x[5]
        r == low % (2 ^ k)
        half == 2 ^ (k - 1)
        up == r > half \/ (r = half /\ (inexact \/ (low \div (2 ^ k)) % 2 = 1))
    IN IF k <= 0 THEN x
       ELSE Carry[<<x[1], x[2], x[3], 0, low - r + (IF up THEN 2 ^ k ELSE 0)>>]

RoundSigned[x \in Limbs] ==
    IF x[1] < 0 THEN FloatNeg[RoundToDouble[FloatNeg[x], FALSE]]
    ELSE RoundToDouble[x, FALSE]

\* x + y
float_add[x \in Limbs, y \in Limbs] ==
    RoundSigned[Carry[<<x[1] + y[1], x[2] + y[2], x[3] + y[3], x[4] + y[4], x[5] + y[5]>>]]

\* x - y
float_sub[x \in Limbs, y \in Limbs] == float_add[x, FloatNeg[y]]

\* n * x for an int n (0 <= n < 2^15), which Python converts to a float first
int_times_float[n \in Int, x \in Limbs] ==
    RoundSigned[Carry[<<n * x[1], n * x[2], n * x[3], n * x[4], n * x[5]>>]]

\* the float a decimal literal with two decimals denotes: the double nearest h/100
float_literal(h) ==
    LET r0 == h % 100
        r1 == (r0 * LimbBase) % 100
        r2 == (r1 * LimbBase) % 100
        r3 == (r2 * LimbBase) % 100
        r4 == (r3 * LimbBase) % 100
    IN RoundToDouble[<<h \div 100, (r0 * LimbBase) \div 100, (r1 * LimbBase) \div 100,
                       (r2 * LimbBase) \div 100, (r3 * LimbBase) \div 100>>, r4 # 0]

\* round(x) of a float x >= 0 to an int: to the nearest, a tie to the even one
round[x \in Limbs] ==
    LET half == <<0, LimbBase \div 2, 0, 0, 0>>
        frac == <<0, x[2], x[3], x[4], x[5]>>
    IN IF FloatLess(half, frac) THEN x[1] + 1
       ELSE IF frac = half THEN x[1] + (x[1] % 2)
       ELSE x[1]

MIN_EASE == float_literal(130)       \* 1.3
DEFAULT_EASE == float_literal(250)   \* 2.5

\* an ease factor that is not clamped
clamp_ease_factor_off(ef) == ef

\* max(1.3, ef)
clamp_ease_factor(ef) == IF FloatLess(MIN_EASE, ef) THEN ef ELSE MIN_EASE

\* 0.1 - (5 - quality) * (0.08 + (5 - quality) * 0.02), for each quality of 0 .. 5
EaseFactorChanges ==
    [quality \in 0 .. 5 |->
        float_sub[float_literal(10),
                  int_times_float[5 - quality,
                                  float_add[float_literal(8),
                                            int_times_float[5 - quality,
                                                            float_literal(2)]]]]]

ease_factor_change(quality) == EaseFactorChanges[quality]

\* apply_sm2 whose lapse keeps the repetitions
apply_sm2_lapse_keeps_repetitions(ease_factor, repetitions, interval_days, quality) ==
    IF quality < 0 \/ quality > 5
    THEN [ok |-> FALSE, ease_factor |-> ease_factor, repetitions |-> repetitions,
          interval_days |-> interval_days]
    ELSE LET ef_prime == clamp_ease_factor(
                 float_add[ease_factor, ease_factor_change(quality)])
             reps_prime == repetitions + 1
         IN IF quality < 3
            THEN [ok |-> TRUE, ease_factor |-> ef_prime, repetitions |-> repetitions,
                  interval_days |-> 1]
            ELSE [ok |-> TRUE, ease_factor |-> ef_prime, repetitions |-> reps_prime,
                  interval_days |->
                      IF reps_prime = 1 THEN 1
                      ELSE IF reps_prime = 2 THEN 6
                      ELSE Max(1, round[int_times_float[interval_days, ef_prime]])]

\* apply_sm2 that multiplies the interval by the ease factor before its update
apply_sm2_old_ease_factor(ease_factor, repetitions, interval_days, quality) ==
    IF quality < 0 \/ quality > 5
    THEN [ok |-> FALSE, ease_factor |-> ease_factor, repetitions |-> repetitions,
          interval_days |-> interval_days]
    ELSE LET ef_prime == clamp_ease_factor(
                 float_add[ease_factor, ease_factor_change(quality)])
             reps_prime == repetitions + 1
         IN IF quality < 3
            THEN [ok |-> TRUE, ease_factor |-> ef_prime, repetitions |-> 0,
                  interval_days |-> 1]
            ELSE [ok |-> TRUE, ease_factor |-> ef_prime, repetitions |-> reps_prime,
                  interval_days |->
                      IF reps_prime = 1 THEN 1
                      ELSE IF reps_prime = 2 THEN 6
                      ELSE Max(1, round[int_times_float[interval_days, ease_factor]])]

\* apply_sm2 that clamps the quality into 0..5
apply_sm2_clamps_quality(ease_factor, repetitions, interval_days, quality) ==
    LET q == Max(0, Min(5, quality))
        ef_prime == clamp_ease_factor(float_add[ease_factor, ease_factor_change(q)])
        reps_prime == repetitions + 1
    IN IF q < 3
       THEN [ok |-> TRUE, ease_factor |-> ef_prime, repetitions |-> 0,
             interval_days |-> 1]
       ELSE [ok |-> TRUE, ease_factor |-> ef_prime, repetitions |-> reps_prime,
             interval_days |->
                 IF reps_prime = 1 THEN 1
                 ELSE IF reps_prime = 2 THEN 6
                 ELSE Max(1, round[int_times_float[interval_days, ef_prime]])]

\* apply_sm2 on (ease factor, repetitions, interval); ok = FALSE is ValueError
apply_sm2(ease_factor, repetitions, interval_days, quality) ==
    IF quality < 0 \/ quality > 5
    THEN [ok |-> FALSE, ease_factor |-> ease_factor, repetitions |-> repetitions,
          interval_days |-> interval_days]
    ELSE LET ef_prime == clamp_ease_factor(
                 float_add[ease_factor, ease_factor_change(quality)])
             reps_prime == repetitions + 1
         IN IF quality < 3
            THEN [ok |-> TRUE, ease_factor |-> ef_prime, repetitions |-> 0,
                  interval_days |-> 1]
            ELSE [ok |-> TRUE, ease_factor |-> ef_prime, repetitions |-> reps_prime,
                  interval_days |->
                      IF reps_prime = 1 THEN 1
                      ELSE IF reps_prime = 2 THEN 6
                      ELSE Max(1, round[int_times_float[interval_days, ef_prime]])]

\* compute_grade that grades a fourth attempt good
compute_grade_good_at_four(revealed, attempt_count) ==
    IF attempt_count < 1 THEN "ValueError"
    ELSE IF revealed THEN "again"
    ELSE IF attempt_count = 1 THEN "easy"
    ELSE IF attempt_count > 4 THEN "hard"
    ELSE "good"

\* compute_grade that looks at revealed before it checks the attempt count
compute_grade_revealed_first(revealed, attempt_count) ==
    IF revealed THEN "again"
    ELSE IF attempt_count < 1 THEN "ValueError"
    ELSE IF attempt_count = 1 THEN "easy"
    ELSE IF attempt_count > 3 THEN "hard"
    ELSE "good"

\* compute_grade; "ValueError" when attempt_count < 1
compute_grade(revealed, attempt_count) ==
    IF attempt_count < 1 THEN "ValueError"
    ELSE IF revealed THEN "again"
    ELSE IF attempt_count = 1 THEN "easy"
    ELSE IF attempt_count > 3 THEN "hard"
    ELSE "good"

\* a quality table that maps hard to a lapse
GRADE_TO_QUALITY_hard_lapses(grade) ==
    CASE grade = "again" -> 0
      [] grade = "hard" -> 2
      [] grade = "good" -> 4
      [] grade = "easy" -> 5

GRADE_TO_QUALITY(grade) ==
    CASE grade = "again" -> 0
      [] grade = "hard" -> 3
      [] grade = "good" -> 4
      [] grade = "easy" -> 5

\* _due_at_for_grade with three days for easy
due_at_for_grade_easy_three_days(t, grade) ==
    IF grade = "again" THEN t + AGAIN_MINUTES
    ELSE IF grade = "hard" THEN t + HARD_MINUTES
    ELSE IF grade = "good" THEN t + GOOD_MINUTES
    ELSE IF grade = "easy" THEN t + EASY_MINUTES - GOOD_MINUTES
    ELSE NoTime

\* _due_at_for_grade; NoTime stands for the ValueError of an unknown grade
due_at_for_grade(t, grade) ==
    IF grade = "again" THEN t + AGAIN_MINUTES
    ELSE IF grade = "hard" THEN t + HARD_MINUTES
    ELSE IF grade = "good" THEN t + GOOD_MINUTES
    ELSE IF grade = "easy" THEN t + EASY_MINUTES
    ELSE NoTime

----------------------------------------------------------------------------
\* Card repository

Card(deck, due) ==
    [present |-> TRUE, deckId |-> deck, userId |-> Learner,
     front |-> "front", back |-> "back", dueAt |-> due,
     easeFactor |-> DEFAULT_EASE, repetitions |-> 0, intervalDays |-> 0,
     lastReviewedAt |-> NoTime, lastGrade |-> None, lastGradedAt |-> NoTime]

DeletedCard == [Card("deleted", 0) EXCEPT !.present = FALSE]

\* a card id under which no card was created yet
AbsentCard == [Card("absent", 0) EXCEPT !.present = FALSE]


\* get_by_id succeeds (no CardNotFoundError)
card_exists(cs, c) == c \in CardIds /\ cs[c].present

LegacyCards(cs, deck) ==
    {c \in CardIds : cs[c].present /\ cs[c].deckId = deck /\ cs[c].dueAt = NoTime}

DueCards(cs, deck, t) ==
    {c \in CardIds : /\ cs[c].present /\ cs[c].deckId = deck
                     /\ cs[c].dueAt # NoTime /\ cs[c].dueAt <= t}

\* The cards get_next_due_for_deck may return ({None}: nothing is due).  TOP 1 of
\* the legacy query is unordered, and so is the order of equal dueAt values.
get_next_due_for_deck(cs, deck, now_iso) ==
    IF LegacyCards(cs, deck) # {} THEN LegacyCards(cs, deck)
    ELSE IF DueCards(cs, deck, now_iso) = {} THEN {None}
    ELSE {c \in DueCards(cs, deck, now_iso) :
            \A d \in DueCards(cs, deck, now_iso) : cs[c].dueAt <= cs[d].dueAt}

\* the write get_next_due_for_deck makes when it returns a legacy card
backfill(cs, c, t) ==
    IF c # None /\ cs[c].dueAt = NoTime THEN [cs EXCEPT ![c].dueAt = t] ELSE cs

\* apply_review_grade that schedules by the interval of the card
apply_review_grade_interval_due(card, grade, reads) ==
    LET new_state == apply_sm2(card.easeFactor, card.repetitions, card.intervalDays,
                               GRADE_TO_QUALITY(grade))
    IN [card EXCEPT !.easeFactor = new_state.ease_factor,
                    !.repetitions = new_state.repetitions,
                    !.intervalDays = new_state.interval_days,
                    !.lastReviewedAt = reads[2],
                    !.dueAt = reads[1] + new_state.interval_days * GOOD_MINUTES,
                    !.lastGrade = grade,
                    !.lastGradedAt = reads[2]]

\* apply_review_grade reads the clock twice: reads[1] is now_dt, from which the due
\* date is counted, and reads[2] is now_iso, the time of the review and of the grade
apply_review_grade(card, grade, reads) ==
    LET new_state == apply_sm2(card.easeFactor, card.repetitions, card.intervalDays,
                               GRADE_TO_QUALITY(grade))
    IN [card EXCEPT !.easeFactor = new_state.ease_factor,
                    !.repetitions = new_state.repetitions,
                    !.intervalDays = new_state.interval_days,
                    !.lastReviewedAt = reads[2],
                    !.dueAt = due_at_for_grade(reads[1], grade),
                    !.lastGrade = grade,
                    !.lastGradedAt = reads[2]]

\* submit_card_review_grade on the card document doc of card c: ok = FALSE when
\* compute_grade or card_repo.replace raises.  replace writes the whole document,
\* and the container refuses to replace an item that is not there.
submit_card_review_grade(cs, c, doc, revealed, attempt_count, reads, persistOk) ==
    LET grade == compute_grade(revealed, attempt_count)
    IN IF grade = "ValueError" \/ ~persistOk \/ ~cs[c].present
       THEN [ok |-> FALSE, cards |-> cs]
       ELSE [ok |-> TRUE,
             cards |-> [cs EXCEPT ![c] = apply_review_grade(doc, grade, reads)]]

----------------------------------------------------------------------------
\* Tutoring agent client

Msgs == {"answer", "reveal the answer"}
Verdicts == {"wrong", "correct", "revealed", "correct and revealed"}
\* "unparsable": no JSON object is found in the reply, or it is no valid verdict;
\* "no object": the reply is valid JSON but no object (a number, a string, a list)
RawResponses == Verdicts \cup {"unparsable", "no object"}
AgentOutcomes == RawResponses \cup {"exception"}

\* the text of a message kept in the history of a stored session
Content(text) == "text"

is_explicit_reveal_request(message) == message = "reveal the answer"

AgentResponse(is_correct, revealed, feedback) ==
    [is_correct |-> is_correct, revealed |-> revealed, feedback |-> feedback]

error_response == AgentResponse(FALSE, FALSE, "trouble")

fallback_response(should_reveal) == AgentResponse(FALSE, should_reveal, "raw")

\* the exception AgentVerdict(**data) raises for data that is no mapping
TypeError == [raised |-> "TypeError"]

\* _parse_response; only JSONDecodeError and ValidationError are caught
parse_response(raw_response, should_reveal) ==
    IF raw_response = "no object" THEN TypeError
    ELSE IF raw_response = "unparsable" THEN fallback_response(should_reveal)
    ELSE AgentResponse(raw_response \in {"correct", "correct and revealed"},
                       raw_response \in {"revealed", "correct and revealed"},
                       "feedback")

\* send_message: the system prompt gets the reveal instruction
reveal_instruction(s, should_reveal) == should_reveal /\ ~s.revealed

\* a request that asks for the answer only above the threshold
send_message_request_above_threshold(s, user_message) ==
    LET s1 == IF is_explicit_reveal_request(user_message)
              THEN [s EXCEPT !.explicit_reveal_request_count = @ + 1]
              ELSE s
        should_reveal == s1.explicit_reveal_request_count > REVEAL_THRESHOLD
    IN [state |-> s1, should_reveal |-> should_reveal,
        annotated |-> reveal_instruction(s1, should_reveal)]

\* send_message up to its first await: an explicit request is counted, and the
\* count decides should_reveal and the reveal instruction of the system prompt
send_message_request(s, user_message) ==
    LET s1 == IF is_explicit_reveal_request(user_message)
              THEN [s EXCEPT !.explicit_reveal_request_count = @ + 1]
              ELSE s
        should_reveal == s1.explicit_reveal_request_count >= REVEAL_THRESHOLD
    IN [state |-> s1, should_reveal |-> should_reveal,
        annotated |-> reveal_instruction(s1, should_reveal)]

\* send_message from the answer of the agent: s is the session as it is by then,
\* should_reveal the value computed before the await.  On an exception nothing
\* is appended to the history.
send_message_reply(s, should_reveal, outcome) ==
    IF outcome = "exception" \/ parse_response(outcome, should_reveal) = TypeError
    THEN [state |-> s, response |-> error_response]
    ELSE LET response == parse_response(outcome, should_reveal)
             s2 == add_message(s, "user", Content("user_message")).state
             s3 == add_message(s2, "assistant", Content(response.feedback)).state
         IN [state |-> [s3 EXCEPT !.is_correct = response.is_correct,
                                  !.revealed = response.revealed],
             response |-> response]

\* send_message when nothing else touches the session while it waits
send_message(s, user_message, outcome) ==
    LET rq == send_message_request(s, user_message)
        rp == send_message_reply(rq.state, rq.should_reveal, outcome)
    IN [state |-> rp.state, response |-> rp.response, annotated |-> rq.annotated]

----------------------------------------------------------------------------
\* Deck repository

\* DeckRepository is the repository of the application, whose methods are
\* coroutines; StubDeckRepo is the synchronous repository of the tests
DeckRepos == {"DeckRepository", "StubDeckRepo"}

\* deck_repo.get_by_id(...) as the handlers call it, without await
deck_get_by_id(repo) == IF repo = "DeckRepository" THEN "coroutine" ELSE "Deck"

\* deck.language
deck_language(deck) == IF deck = "coroutine" THEN "AttributeError" ELSE "language"

----------------------------------------------------------------------------
\* SessionStore

get_or_create_session(st, k, card_id, t) ==
    IF k \notin DOMAIN st
    THEN [state |-> create_session(k, card_id, t), created |-> TRUE]
    ELSE IF card_id # None /\ st[k].card_id # card_id
    THEN [state |-> start_card(st[k], card_id), created |-> FALSE]
    ELSE [state |-> st[k], created |-> FALSE]

get_or_create(st, k, card_id, t) ==
    IF k \notin DOMAIN st
    THEN [state |-> create_session(k, card_id, t), created |-> TRUE]
    ELSE IF st[k].card_id # card_id
    THEN [state |-> start_card(st[k], card_id), created |-> FALSE]
    ELSE [state |-> st[k], created |-> FALSE]

\* self._cache[key] = state.  The handlers mutate the cached object itself, so
\* every path of a handler leaves the session as mutated so far under its key.
update(st, k, state) ==
    [x \in DOMAIN st \cup {k} |-> IF x = k THEN state ELSE st[x]]

----------------------------------------------------------------------------
\* Request handlers

HTTP_OK == "200"
HTTP_ERROR == "500"
HTTP_UNAVAILABLE == "503"

Response(status_code, mode, card) ==
    [status |-> status_code, mode |-> mode, card |-> card]

NoResponse == Response(None, None, None)

NullSession == AgentSessionState(<<None, None>>, 0)

\* the session fields a property looks at after the selection step of a turn
Fresh(s) ==
    /\ s.attempt_count = 0
    /\ s.msgs = << >>
    /\ s.explicit_reveal_request_count = 0
    /\ s.resolved_at = NoTime

\* phase tells which part of chat_with_tutor a step was: "whole" for a request
\* that was handled from its arrival to its response, "first" for the part up to
\* the await of the agent, "last" for the part from the answer of the agent on
NoEv ==
    [op |-> "init", phase |-> None, key |-> None, created |-> FALSE,
     arrMode |-> None, arrResolved |-> FALSE, vanished |-> FALSE,
     selDue |-> "n/a", selAt |-> NoTime, selMode |-> None, selCard |-> None,
     selFresh |-> FALSE,
     handler |-> None, annotated |-> FALSE, correct |-> FALSE, revealed |-> FALSE,
     resolves |-> FALSE, graded |-> None, attempts |-> 0, turnNo |-> 0,
     verdictNo |-> 0,
     trimmed |-> FALSE, rollover |-> FALSE, nextDue |-> "n/a", agent |-> None,
     reads |-> <<NoTime, NoTime, NoTime>>]

\* no turn was submitted against the active card, and none answered
NoTurns == [submitted |-> 0, answered |-> 0]

\* a chat request that waits for the agent: the local variables of its handler
\* that are used after the await (the card, which is the document the handler read
\* from the repository, and should_reveal of send_message), and what the request
\* found at its arrival
Request(k, card, doc, should_reveal, found_vanished, found_resolved) ==
    [key |-> k, card |-> card, doc |-> doc, should_reveal |-> should_reveal,
     vanished |-> found_vanished, resolved |-> found_resolved]

\* how the call to the agent ended: it raised, its output had no verdict, or
\* its output was parsed into a verdict
AgentResult(outcome) ==
    IF outcome = "exception" THEN "failed"
    ELSE IF outcome \in {"unparsable", "no object"} THEN "unparsable"
    ELSE "verdict"

\* chat_with_tutor: the card of the session if it still exists in the deck
active_card(s, cs, k) ==
    IF /\ s.mode = "card"
       /\ s.card_id # None
       /\ card_exists(cs, s.card_id)
       /\ cs[s.card_id].deckId = k
    THEN s.card_id
    ELSE None

\* the session points at a card that was deleted or is no longer in the deck
vanished(s, cs, k) ==
    /\ s.mode = "card"
    /\ s.card_id \in CardIds
    /\ ~(cs[s.card_id].present /\ cs[s.card_id].deckId = k)

\* chat_with_tutor: no active card, due is what get_next_due_for_deck returned
select_state(s, due) ==
    IF due # None THEN start_card(s, due)
    ELSE IF s.mode # "free" THEN start_free_mode(s)
    ELSE s

\* an increment that does not look at resolved_at
count_attempt_always(s) == [s EXCEPT !.attempt_count = @ + 1]

\* _handle_card_mode_chat: attempt_count is incremented only if not yet resolved
count_attempt(s) ==
    IF ~is_resolved(s) THEN [s EXCEPT !.attempt_count = @ + 1] ELSE s

\* a resolution test that ignores the verdict
card_resolved_always(s, r) == ~is_resolved(s)

\* _handle_card_mode_chat: the verdict resolves the card for the first time
card_resolved_now(s, r) == ~is_resolved(s) /\ (r.is_correct \/ r.revealed)

\* _handle_card_mode_chat from the answer of the agent to the grading of a
\* resolved card.  s is the session as the store holds it by then, q the request;
\* reads are the clock readings of resolved_at and of the two reads of
\* apply_review_grade
card_turn(s, cs, q, outcome, reads, persistOk) ==
    LET sm == send_message_reply(s, q.should_reveal, outcome)
        r == sm.response
        resolves == card_resolved_now(sm.state, r)
        s3 == IF resolves
              THEN [sm.state EXCEPT !.resolved_at = reads[1],
                                    !.is_correct = r.is_correct,
                                    !.revealed = r.revealed]
              ELSE sm.state
        sub == IF resolves
               THEN submit_card_review_grade(cs, q.card, q.doc, r.revealed,
                                             s3.attempt_count,
                                             <<reads[2], reads[3]>>, persistOk)
               ELSE [ok |-> TRUE, cards |-> cs]
    IN [state |-> s3, response |-> r, resolves |-> resolves, ok |-> sub.ok,
        cards |-> sub.cards]

\* _handle_card_mode_chat: advance after a resolution, next is the re-queried due card
advance(s, next) ==
    IF next # None THEN start_card(reset_agent_context(s), next)
    ELSE start_free_mode(reset_agent_context(s))

\* the readings the clock can give after it gave t; a request is over before the
\* clock has advanced twice
Later(t) == {u \in {t, t + TickStep} : u <= MaxNow /\ u <= now + TickStep}

\* a step of one request while others wait for the agent
Meanwhile ==
    /\ flight # EmptyBag => overlap < MaxOverlap
    /\ overlap' = IF flight = EmptyBag THEN 0 ELSE overlap + 1

\* the turns submitted against the active card, this one included.  Turns that
\* arrive on a card that is already resolved are counted up to MaxResolvedTurns.
submitted_after(s1, fresh, t) ==
    IF fresh THEN 1
    ELSE IF is_resolved(s1)
    THEN Min(t.submitted + 1, Max(t.submitted, s1.attempt_count + MaxResolvedTurns))
    ELSE t.submitted + 1

\* the turns of the active card the agent has answered, this one included
answered_after(t) ==
    Min(t.answered + 1, MaxAttempts + MaxInFlight + MaxResolvedTurns)

\* chat_with_tutor on a card, from the arrival of the request to the first await
\* inside send_message, where the handler gives up control: the session is
\* fetched, the card is selected, the attempt is counted and send_message counts
\* an explicit reveal request.  The clock is read again wherever the code reads
\* it: tb by the creation of the session, tc by the write of a missing dueAt.
\* started = FALSE: the call of the agent raises before it waits.  The awaits
\* of send_message (one for each user message of the context, then one for the
\* message itself) are one wait: nothing is read or written between them.
TurnArrive(k, msg, started) ==
    \E tb \in (IF k \in DOMAIN store THEN {now} ELSE Later(now)) :
    \E g \in {get_or_create_session(store, k, None, tb)} :
    \E s0 \in {g.state} :
    \E act \in {active_card(s0, cards, k)} :
    \E due \in (IF act = None THEN get_next_due_for_deck(cards, k, now) ELSE {"n/a"}) :
    \E tc \in (IF act = None /\ due # None /\ cards[due].dueAt = NoTime
               THEN Later(tb) ELSE {tb}) :
    \E cards1 \in {IF act = None THEN backfill(cards, due, tc) ELSE cards} :
    \E s1 \in {IF act = None THEN select_state(s0, due) ELSE s0} :
    \E card \in {IF act # None THEN act ELSE due} :
    \E fresh \in {g.created \/ act = None} :
    \E n \in {submitted_after(s1, fresh, turns[k])} :
    \E m \in {IF fresh THEN 0 ELSE turns[k].answered} :
    \E rv \in {IF fresh THEN 0 ELSE reveals[k]} :
    \E rv1 \in {IF is_explicit_reveal_request(msg) THEN rv + 1 ELSE rv} :
    \E s2 \in {count_attempt(s1)} :
    \E sb \in {send_message_request(s2, msg)} :
       LET e0 == [NoEv EXCEPT !.op = "turn", !.key = k, !.created = g.created,
                              !.arrMode = s0.mode,
                              !.arrResolved = is_resolved(s1),
                              !.vanished = vanished(s0, cards, k),
                              !.selDue = due, !.selAt = now, !.selMode = s1.mode,
                              !.selCard = s1.card_id, !.selFresh = Fresh(s1),
                              !.handler = "card",
                              !.attempts = s2.attempt_count,
                              !.turnNo = n, !.verdictNo = m]
       IN /\ s1.mode = "card" /\ card # None
          /\ Meanwhile
          /\ ~is_resolved(s1) => s1.attempt_count < MaxAttempts
          /\ is_explicit_reveal_request(msg)
                 => s1.explicit_reveal_request_count < MaxReveal
          /\ now' = tc
          /\ cards' = cards1
          /\ UNCHANGED <<faults, configured, deck_repo, objVars, cacheVars, lockVars,
                         srsVars, concVars>>
          /\ IF ~configured \/ deck_language(deck_get_by_id(deck_repo)) = "AttributeError"
             THEN \* get_foundry_client raises EnvironmentError, or the argument
                  \* deck.language of send_message raises AttributeError
                  /\ started
                  /\ store' = update(store, k, s2)
                  /\ turns' = [turns EXCEPT ![k] = [submitted |-> n, answered |-> m]]
                  /\ reveals' = [reveals EXCEPT ![k] = rv]
                  /\ flight' = flight
                  /\ resp' = Response(IF ~configured THEN HTTP_UNAVAILABLE
                                      ELSE HTTP_ERROR, None, None)
                  /\ ev' = [e0 EXCEPT !.phase = "whole"]
             ELSE IF ~started
             THEN \* send_message answers with error_response, which resolves nothing
                  /\ store' = update(store, k, sb.state)
                  /\ turns' = [turns EXCEPT ![k] =
                                   [submitted |-> n,
                                    answered |-> answered_after([answered |-> m])]]
                  /\ reveals' = [reveals EXCEPT ![k] = rv1]
                  /\ flight' = flight
                  /\ resp' = Response(HTTP_OK, "card", card)
                  /\ ev' = [e0 EXCEPT !.phase = "whole", !.agent = "failed",
                                      !.annotated = sb.annotated,
                                      !.verdictNo = answered_after([answered |-> m])]
             ELSE \* the handler waits for the agent
                  /\ BagCardinality(flight) < MaxInFlight
                  /\ store' = update(store, k, sb.state)
                  /\ turns' = [turns EXCEPT ![k] = [submitted |-> n, answered |-> m]]
                  /\ reveals' = [reveals EXCEPT ![k] = rv1]
                  /\ flight' = flight (+) SetToBag({Request(k, card, cards1[card],
                                                             sb.should_reveal,
                                                             vanished(s0, cards, k),
                                                             is_resolved(s1))})
                  /\ resp' = NoResponse
                  /\ ev' = [e0 EXCEPT !.phase = "first", !.agent = "called",
                                      !.annotated = sb.annotated]

\* chat_with_tutor on a card, from the answer of the agent to the response.  The
\* verdict is applied to the session the store holds by now; the card that is
\* graded and named in the response is the one the handler read at its arrival.
\* The clock is read again wherever the code reads it: t1 for resolved_at, t2
\* and t3 by apply_review_grade, t4 for the query of the next due card and t5 by
\* its write of a missing dueAt.
resume_card_turn(q, outcome, persistOk, backfillOk) ==
    /\ BagIn(q, flight)
    /\ \E k \in {q.key} :
       \E sm \in {send_message_reply(store[k], q.should_reveal, outcome)} :
       \E resolving \in {card_resolved_now(sm.state, sm.response)} :
       \E t1 \in (IF resolving THEN Later(now) ELSE {now}) :
       \E t2 \in (IF resolving THEN Later(t1) ELSE {t1}) :
       \E t3 \in (IF resolving THEN Later(t2) ELSE {t2}) :
       \E ct \in {card_turn(store[k], cards, q, outcome, <<t1, t2, t3>>, persistOk)} :
       \E m \in {answered_after(turns[k])} :
          LET e1 == [NoEv EXCEPT !.op = "turn", !.phase = "last", !.key = k,
                                 !.handler = "card",
                                 !.vanished = q.vanished,
                                 !.arrResolved = q.resolved,
                                 !.agent = AgentResult(outcome),
                                 !.correct = ct.response.is_correct,
                                 !.revealed = ct.response.revealed,
                                 !.resolves = ct.resolves,
                                 !.attempts = ct.state.attempt_count,
                                 !.turnNo = turns[k].submitted,
                                 !.verdictNo = m,
                                 !.reads = <<t1, t2, t3>>]
          IN /\ flight' = flight (-) SetToBag({q})
             /\ overlap' = IF BagCardinality(flight) = 1 THEN 0 ELSE overlap
             /\ UNCHANGED <<configured, deck_repo, objVars, cacheVars, lockVars, srsVars>>
             /\ IF ~ct.resolves
                THEN /\ persistOk /\ backfillOk
                     /\ faults' = faults
                     /\ now' = t1
                     /\ store' = update(store, k, ct.state)
                     /\ cards' = cards
                     /\ turns' = [turns EXCEPT ![k].answered = m]
                     /\ reveals' = reveals
                     /\ resp' = Response(HTTP_OK, "card", q.card)
                     /\ ev' = e1
                ELSE IF ~ct.ok
                THEN \* compute_grade or replace raised: the handler's except branch
                     /\ backfillOk
                     /\ ~persistOk => /\ faults < MaxFaults
                                      /\ card_turn(store[k], cards, q, outcome,
                                                   <<t1, t2, t3>>, TRUE).ok
                     /\ faults' = IF persistOk THEN faults ELSE faults + 1
                     /\ now' = t3
                     /\ store' = update(store, k, ct.state)
                     /\ cards' = cards
                     /\ turns' = [turns EXCEPT ![k].answered = m]
                     /\ reveals' = reveals
                     /\ resp' = Response(HTTP_ERROR, None, None)
                     /\ ev' = e1
                ELSE \E t4 \in Later(t3) :
                     \E next \in get_next_due_for_deck(ct.cards, k, t4) :
                     \E t5 \in (IF next # None /\ ct.cards[next].dueAt = NoTime
                                THEN Later(t4) ELSE {t4}) :
                     IF ~backfillOk
                     THEN \* the write of the missing dueAt raises: the grade is
                          \* stored and the context is reset, on the same card
                          /\ next # None /\ ct.cards[next].dueAt = NoTime
                          /\ faults < MaxFaults
                          /\ faults' = faults + 1
                          /\ now' = t5
                          /\ store' = update(store, k, reset_agent_context(ct.state))
                          /\ cards' = ct.cards
                          /\ turns' = [turns EXCEPT ![k] = NoTurns]
                          /\ reveals' = [reveals EXCEPT ![k] = 0]
                          /\ resp' = Response(HTTP_ERROR, None, None)
                          /\ ev' = [e1 EXCEPT !.graded = q.card]
                     ELSE /\ faults' = faults
                          /\ now' = t5
                          /\ store' = update(store, k, advance(ct.state, next))
                          /\ cards' = backfill(ct.cards, next, t5)
                          /\ turns' = [turns EXCEPT ![k] = NoTurns]
                          /\ reveals' = [reveals EXCEPT ![k] = 0]
                          /\ resp' = IF next # None
                                     THEN Response(HTTP_OK, "card", next)
                                     ELSE Response(HTTP_OK, "free", None)
                          /\ ev' = [e1 EXCEPT !.graded = q.card, !.nextDue = next]

\* the agent answers one of the requests that wait for it
TurnResume(outcome, persistOk, backfillOk) ==
    \E q \in BagToSet(flight) :
       /\ resume_card_turn(q, outcome, persistOk, backfillOk)
       /\ UNCHANGED concVars

\* chat_with_tutor without a card: nothing is due, and _handle_free_mode_chat fails
\* before it reaches the agent, since get_foundry_client raises EnvironmentError or
\* the client has no attribute send_free_mode_message
TurnFree(k) ==
    /\ Meanwhile
    /\ \E tb \in (IF k \in DOMAIN store THEN {now} ELSE Later(now)) :
       LET g == get_or_create_session(store, k, None, tb)
           s0 == g.state
           act == active_card(s0, cards, k)
       IN \E due \in (IF act = None THEN get_next_due_for_deck(cards, k, now)
                      ELSE {"n/a"}) :
          LET s1 == IF act = None THEN select_state(s0, due) ELSE s0
              card == IF act # None THEN act ELSE due
          IN /\ ~(s1.mode = "card" /\ card # None)
             /\ now' = tb
             /\ store' = update(store, k, s1)
             /\ turns' = [turns EXCEPT ![k] = NoTurns]
             /\ reveals' = [reveals EXCEPT ![k] = 0]
             /\ resp' = Response(IF ~configured THEN HTTP_UNAVAILABLE ELSE HTTP_ERROR,
                                 None, None)
             /\ ev' = [NoEv EXCEPT !.op = "turn", !.phase = "whole", !.key = k,
                                   !.created = g.created,
                                   !.arrMode = s0.mode,
                                   !.arrResolved = is_resolved(s0),
                                   !.vanished = vanished(s0, cards, k),
                                   !.selDue = due, !.selAt = now, !.selMode = s1.mode,
                                   !.selCard = s1.card_id, !.selFresh = Fresh(s1),
                                   !.handler = "free",
                                   !.agent = IF configured THEN "failed" ELSE None]
             /\ UNCHANGED <<cards, flight, faults, configured, deck_repo, objVars, cacheVars, lockVars,
                            srsVars, concVars>>

\* chat_with_tutor whose get_next_due_for_deck raises: the write of the missing
\* dueAt of a legacy card fails, outside every try
TurnSelectionFails(k) ==
    /\ Meanwhile
    /\ \E tb \in (IF k \in DOMAIN store THEN {now} ELSE Later(now)) :
       LET g == get_or_create_session(store, k, None, tb)
       IN /\ active_card(g.state, cards, k) = None
          /\ LegacyCards(cards, k) # {}
          /\ faults < MaxFaults
          /\ faults' = faults + 1
          /\ \E tc \in Later(tb) : now' = tc
          /\ store' = update(store, k, g.state)
          /\ resp' = Response(HTTP_ERROR, None, None)
          /\ ev' = [NoEv EXCEPT !.op = "turn", !.phase = "whole", !.key = k,
                                !.created = g.created,
                                !.arrMode = g.state.mode,
                                !.arrResolved = is_resolved(g.state),
                                !.vanished = vanished(g.state, cards, k)]
          /\ UNCHANGED <<cards, turns, reveals, flight, configured, deck_repo, objVars,
                         cacheVars, lockVars, srsVars, concVars>>

\* start_learning_session.  deck.language is read before the store is touched;
\* the greeting of the agent does not change the session (the client has no
\* attribute generate_greeting, and the fallback greeting is used)
StartSession(k, backfillOk) ==
    /\ Meanwhile
    /\ IF deck_language(deck_get_by_id(deck_repo)) = "AttributeError"
       THEN /\ backfillOk
            /\ resp' = Response(HTTP_ERROR, None, None)
            /\ ev' = [NoEv EXCEPT !.op = "start failed", !.key = k]
            /\ UNCHANGED <<now, cards, store, turns, reveals, flight, faults, configured, deck_repo,
                           objVars, cacheVars, lockVars, srsVars, concVars>>
       ELSE \E card \in get_next_due_for_deck(cards, k, now) :
            \E tc \in (IF card # None /\ cards[card].dueAt = NoTime
                       THEN Later(now) ELSE {now}) :
            IF ~backfillOk
            THEN \* get_next_due_for_deck raises, outside every try
                 /\ card # None /\ cards[card].dueAt = NoTime
                 /\ faults < MaxFaults
                 /\ faults' = faults + 1
                 /\ now' = tc
                 /\ resp' = Response(HTTP_ERROR, None, None)
                 /\ ev' = [NoEv EXCEPT !.op = "start failed", !.key = k]
                 /\ UNCHANGED <<cards, store, turns, reveals, flight, configured, deck_repo,
                                objVars, cacheVars, lockVars, srsVars, concVars>>
            ELSE \E tb \in (IF k \in DOMAIN store THEN {tc} ELSE Later(tc)) :
                 LET g == get_or_create_session(store, k, card, tb)
                     s1 == IF card # None THEN start_card(g.state, card)
                           ELSE start_free_mode(g.state)
                 IN /\ now' = tb
                    /\ store' = update(store, k, s1)
                    /\ cards' = backfill(cards, card, tc)
                    /\ turns' = [turns EXCEPT ![k] = NoTurns]
                    /\ reveals' = [reveals EXCEPT ![k] = 0]
                    /\ resp' = IF card # None THEN Response(HTTP_OK, "card", card)
                               ELSE Response(HTTP_OK, "free", None)
                    /\ ev' = [NoEv EXCEPT !.op = "start", !.key = k,
                                          !.created = g.created,
                                          !.selDue = card, !.selAt = now,
                                          !.selMode = s1.mode,
                                          !.selCard = s1.card_id, !.selFresh = Fresh(s1)]
                    /\ UNCHANGED <<flight, faults, configured, deck_repo, objVars, cacheVars, lockVars,
                                   srsVars, concVars>>

\* learn_next: the next due card is returned; the session store is not involved
LearnNext(k, backfillOk) ==
    /\ Meanwhile
    /\ \E card \in get_next_due_for_deck(cards, k, now) :
       \E tc \in (IF card # None /\ cards[card].dueAt = NoTime THEN Later(now) ELSE {now}) :
          /\ ~backfillOk => card # None /\ cards[card].dueAt = NoTime /\ faults < MaxFaults
          /\ faults' = IF backfillOk THEN faults ELSE faults + 1
          /\ now' = tc
          /\ cards' = IF backfillOk THEN backfill(cards, card, tc) ELSE cards
          /\ resp' = IF backfillOk THEN Response(HTTP_OK, None, card)
                     ELSE Response(HTTP_ERROR, None, None)
          /\ ev' = [NoEv EXCEPT !.op = "next", !.key = k, !.selDue = card,
                                !.selAt = now]
          /\ UNCHANGED <<store, turns, reveals, flight, configured, deck_repo, objVars, cacheVars,
                         lockVars, srsVars, concVars>>

\* SessionStore.get_or_create called on the store directly, with a due card as hint
GetOrCreate(k, c) ==
    /\ Meanwhile
    /\ c \in LegacyCards(cards, k) \cup DueCards(cards, k, now)
    /\ LET g == get_or_create(store, k, c, now)
       IN /\ store' = update(store, k, g.state)
          /\ turns' = [turns EXCEPT ![k] = IF g.created \/ store[k].card_id # c
                                            THEN NoTurns ELSE @]
          /\ reveals' = [reveals EXCEPT ![k] = IF g.created \/ store[k].card_id # c
                                                THEN 0 ELSE @]
          /\ resp' = NoResponse
          /\ ev' = [NoEv EXCEPT !.op = "get_or_create", !.key = k,
                                !.created = g.created, !.selDue = c]
          /\ UNCHANGED <<now, cards, flight, faults, configured, deck_repo, objVars, cacheVars, lockVars, srsVars, concVars>>

\* time passes between requests
Tick ==
    /\ Meanwhile
    /\ now + TickStep <= MaxNow
    /\ now' = now + TickStep
    /\ resp' = NoResponse
    /\ ev' = [NoEv EXCEPT !.op = "tick"]
    /\ UNCHANGED <<cards, store, turns, reveals, flight, faults, configured, deck_repo, objVars, cacheVars, lockVars, srsVars, concVars>>

\* a card is deleted through the cards API (CardRepository.delete)
DeleteCard(c) ==
    /\ Meanwhile
    /\ cards[c].present
    /\ cards' = [cards EXCEPT ![c] = DeletedCard]
    /\ resp' = NoResponse
    /\ ev' = [NoEv EXCEPT !.op = "delete"]
    /\ UNCHANGED <<now, store, turns, reveals, flight, faults, configured, deck_repo, objVars, cacheVars, lockVars, srsVars, concVars>>

\* every card of a deck is deleted in one call (CardRepository.delete_by_deck,
\* called when the deck is deleted)
DeleteDeck(k) ==
    /\ Meanwhile
    /\ cards' = [c \in CardIds |-> IF cards[c].present /\ cards[c].deckId = k
                                     THEN DeletedCard ELSE cards[c]]
    /\ resp' = NoResponse
    /\ ev' = [NoEv EXCEPT !.op = "delete_by_deck"]
    /\ UNCHANGED <<now, store, turns, reveals, flight, faults, configured, deck_repo, objVars, cacheVars, lockVars, srsVars, concVars>>

\* a card is rewritten through the cards API (CardRepository.update): the
\* document is read into a Card, whose default gives a card stored without
\* dueAt the current time, and written back, whatever the update changes
UpdateCard(c) ==
    /\ Meanwhile
    /\ cards[c].present
    /\ cards' = backfill(cards, c, now)
    /\ resp' = NoResponse
    /\ ev' = [NoEv EXCEPT !.op = "update"]
    /\ UNCHANGED <<now, store, turns, reveals, flight, faults, configured, deck_repo, objVars, cacheVars, lockVars, srsVars, concVars>>

\* a card is created through the cards API or the seed (CardRepository.create):
\* it is due at once
CreateCard(c, k) ==
    /\ Meanwhile
    /\ cards[c] = AbsentCard
    /\ cards' = [cards EXCEPT ![c] = Card(k, now)]
    /\ resp' = NoResponse
    /\ ev' = [NoEv EXCEPT !.op = "create"]
    /\ UNCHANGED <<now, store, turns, reveals, flight, faults, configured, deck_repo, objVars, cacheVars,
                   lockVars, srsVars, concVars>>

----------------------------------------------------------------------------
\* The session store with expiry and capacity

StoreKeys == {"k1", "k2", "k3"}
Maxsizes == {1, 2}
StoreTick == TTL_MINUTES \div 2
MaxStoreNow == MaxStoreTicks * StoreTick

\* TTLCache(maxsize, ttl): items are kept in order of use, least recently used first
TTLCache(maxsize, ttl) == [maxsize |-> maxsize, ttl |-> ttl, items |-> << >>]

cache_keys(c) == {c.items[i].key : i \in 1..Len(c.items)}

cache_without(c, key) ==
    LET Other(e) == e.key # key
    IN [c EXCEPT !.items = SelectSeq(@, Other)]

cache_entry(c, key) ==
    c.items[CHOOSE i \in 1..Len(c.items) : c.items[i].key = key]

\* TTLCache.expire: every item whose time is up is removed
cache_expire(c, t) ==
    LET Alive(e) == t < e.expires
    IN [c EXCEPT !.items = SelectSeq(@, Alive)]

\* a lookup that answers for an item whose time is up
cache_contains_expired(c, key, t) == key \in cache_keys(c)

\* TTLCache.__contains__: an item whose time is up is not in the cache
cache_contains(c, key, t) ==
    key \in cache_keys(c) /\ t < cache_entry(c, key).expires

\* TTLCache.get: the value of a live item, which becomes the most recently used
\* (NullSession stands for the default None)
cache_get(c, key, t) ==
    IF cache_contains(c, key, t)
    THEN [cache |-> [cache_without(c, key) EXCEPT
                        !.items = Append(@, cache_entry(c, key))],
          value |-> cache_entry(c, key).value]
    ELSE [cache |-> c, value |-> NullSession]

\* an eviction that removes the most recently used items
cache_evict_newest(c, n) ==
    LET d == Max(0, Min(n, Len(c.items)))
    IN [c EXCEPT !.items = IF d = 0 THEN @ ELSE SubSeq(@, 1, Len(@) - d)]

\* TTLCache.popitem repeated n times: the least recently used items are removed
cache_evict(c, n) ==
    LET d == Max(0, Min(n, Len(c.items)))
    IN [c EXCEPT !.items = IF d = 0 THEN @ ELSE SubSeq(@, d + 1, Len(@))]

\* TTLCache.__setitem__: expired items are purged, room is made for a new key,
\* and the item becomes the most recently used with a full time to live
cache_setitem(c, key, value, t) ==
    LET c1 == cache_expire(c, t)
        c2 == IF key \in cache_keys(c1) THEN cache_without(c1, key)
              ELSE cache_evict(c1, Len(c1.items) + 1 - c1.maxsize)
    IN [c2 EXCEPT !.items = Append(@, [key |-> key, value |-> value,
                                        expires |-> t + c.ttl])]

\* TTLCache.pop(key, None)
cache_pop(c, key, t) ==
    IF cache_contains(c, key, t) THEN cache_without(c, key) ELSE c

\* TTLCache.clear
cache_clear(c) == [c EXCEPT !.items = << >>]

\* SessionStore.__init__
new_store(ttl, maxsize) == TTLCache(maxsize, ttl)

\* a get that does not write the entry back
SessionStore_get_no_refresh(c, k, t) ==
    LET g == cache_get(c, k, t)
    IN [cache |-> g.cache, state |-> g.value]

\* SessionStore.get
SessionStore_get(c, k, t) ==
    LET g == cache_get(c, k, t)
    IN IF g.value # NullSession
       THEN [cache |-> cache_setitem(g.cache, k, g.value, t), state |-> g.value]
       ELSE [cache |-> g.cache, state |-> NullSession]

\* a get_or_create that keeps the session when the card differs
SessionStore_get_or_create_keep(c, k, card_id, t) ==
    LET g == cache_get(c, k, t)
        state == IF g.value = NullSession THEN create_session(k, card_id, t) ELSE g.value
    IN [cache |-> cache_setitem(g.cache, k, state, t), state |-> state]

\* SessionStore.get_or_create
SessionStore_get_or_create(c, k, card_id, t) ==
    LET g == cache_get(c, k, t)
        state == IF g.value = NullSession THEN create_session(k, card_id, t)
                 ELSE IF g.value.card_id # card_id THEN start_card(g.value, card_id)
                 ELSE g.value
    IN [cache |-> cache_setitem(g.cache, k, state, t), state |-> state]

\* SessionStore.get_or_create_session
SessionStore_get_or_create_session(c, k, card_id, t) ==
    LET g == cache_get(c, k, t)
        state == IF g.value = NullSession THEN create_session(k, card_id, t)
                 ELSE IF card_id # None /\ g.value.card_id # card_id
                      THEN start_card(g.value, card_id)
                 ELSE g.value
    IN [cache |-> cache_setitem(g.cache, k, state, t), state |-> state]

\* SessionStore.update
SessionStore_update(c, k, state, t) == cache_setitem(c, k, state, t)

\* a reset that removes nothing
SessionStore_reset_noop(c, k, t) == c

\* a reset that removes the entries of all keys
SessionStore_reset_every_key(c, k, t) == cache_clear(c)

\* SessionStore.reset
SessionStore_reset(c, k, t) == cache_pop(c, k, t)

\* SessionStore.clear
SessionStore_clear(c) == cache_clear(c)

NullCache == TTLCache(0, 0)
NoSres == [op |-> "none", key |-> None, card |-> None, before |-> NullSession,
           state |-> NullSession, evicted |-> {}]

\* a chat request and another request that are not in a handler
NoTurn == [at |-> "idle", state |-> NullSession, aliased |-> FALSE, n |-> 0]
NoCall == [at |-> "idle", op |-> None, key |-> None, card |-> None, during |-> FALSE,
           state |-> NullSession, aliased |-> FALSE]

\* the keys whose entry a lookup at time t finds
LiveKeys(c, t) == {k \in cache_keys(c) : t < cache_entry(c, k).expires}

\* the session a lookup of k at time t finds (NullSession: none)
live_value(c, k, t) ==
    IF k \in LiveKeys(c, t) THEN cache_entry(c, k).value ELSE NullSession

\* the keys that were accessed less than one TTL before t
Fresh_keys(tc, t) ==
    {x \in StoreKeys : tc[x] # NoTime /\ t < tc[x] + TTL_MINUTES}

\* the fresh keys whose entry is no longer in cache c2
Dropped(c2, t) == {x \in Fresh_keys(touched, t) : x \notin cache_keys(c2)}

\* touched after an operation at time t that left cache c2 and accessed key k
Touch(c2, t, k) ==
    [x \in StoreKeys |-> IF x = k THEN t
                         ELSE IF x \in Dropped(c2, t) THEN NoTime
                         ELSE touched[x]]

SGet(k) ==
    LET r == SessionStore_get(cache, k, now)
    IN /\ cache' = r.cache
       /\ sres' = [NoSres EXCEPT !.op = "get", !.key = k, !.state = r.state,
                                 !.before = live_value(cache, k, now)]
       /\ touched' = Touch(r.cache, now, IF r.state # NullSession THEN k ELSE None)
       /\ UNCHANGED <<coreVars, objVars, lockVars, srsVars, concVars>>

SGetOrCreate(k, c) ==
    LET r == SessionStore_get_or_create(cache, k, c, now)
    IN /\ cache' = r.cache
       /\ sres' = [NoSres EXCEPT !.op = "get_or_create", !.key = k, !.card = c,
                                 !.state = r.state,
                                 !.before = live_value(cache, k, now),
                                 !.evicted = Dropped(r.cache, now) \ {k}]
       /\ touched' = Touch(r.cache, now, k)
       /\ UNCHANGED <<coreVars, objVars, lockVars, srsVars, concVars>>

SGetOrCreateSession(k, c) ==
    LET r == SessionStore_get_or_create_session(cache, k, c, now)
    IN /\ cache' = r.cache
       /\ sres' = [NoSres EXCEPT !.op = "get_or_create_session", !.key = k, !.card = c,
                                 !.state = r.state,
                                 !.before = live_value(cache, k, now),
                                 !.evicted = Dropped(r.cache, now) \ {k}]
       /\ touched' = Touch(r.cache, now, k)
       /\ UNCHANGED <<coreVars, objVars, lockVars, srsVars, concVars>>

\* a handler records a turn in the session it holds and writes it back
SUpdate(k) ==
    /\ cache_contains(cache, k, now)
    /\ LET s == cache_entry(cache, k).value
           s1 == add_message(count_attempt(s), "user", Content("answer")).state
       IN /\ s.attempt_count < MaxStoreTurns
          /\ cache' = SessionStore_update(cache, k, s1, now)
          /\ sres' = [NoSres EXCEPT !.op = "update", !.key = k, !.state = s1,
                                    !.before = s]
    /\ touched' = Touch(cache', now, k)
    /\ UNCHANGED <<coreVars, objVars, lockVars, srsVars, concVars>>

SReset(k) ==
    /\ cache' = SessionStore_reset(cache, k, now)
    /\ sres' = [NoSres EXCEPT !.op = "reset", !.key = k,
                              !.before = live_value(cache, k, now)]
    /\ touched' = [touched EXCEPT ![k] = NoTime]
    /\ UNCHANGED <<coreVars, objVars, lockVars, srsVars, concVars>>

SClear ==
    /\ cache' = SessionStore_clear(cache)
    /\ sres' = [NoSres EXCEPT !.op = "clear"]
    /\ touched' = [x \in StoreKeys |-> NoTime]
    /\ UNCHANGED <<coreVars, objVars, lockVars, srsVars, concVars>>

STick ==
    /\ now + StoreTick <= MaxStoreNow
    /\ now' = now + StoreTick
    /\ sres' = [NoSres EXCEPT !.op = "tick"]
    /\ UNCHANGED <<cache, touched, cards, store, turns, ev, resp, flight, overlap, faults, configured, deck_repo, reveals,
                   objVars, lockVars, srsVars, concVars>>

----------------------------------------------------------------------------
\* Specifications

InitDue == {NoTime, 0, TickStep}

Init ==
    /\ now = 0
    /\ cards \in [CardIds -> {Card(k, d) : k \in Keys, d \in InitDue} \cup {AbsentCard}]
    /\ store = << >>
    /\ turns = [k \in Keys |-> NoTurns]
    /\ flight = EmptyBag
    /\ overlap = 0
    /\ faults = 0
    /\ reveals = [k \in Keys |-> 0]
    /\ ev = NoEv
    /\ resp = NoResponse
    /\ configured \in BOOLEAN
    /\ deck_repo \in DeckRepos
    /\ obj = NullSession
    /\ objRes = NoRes
    /\ msgSeq = 0
    /\ sinceClear = 0
    /\ cache = NullCache
    /\ sres = NoSres
    /\ touched = [k \in StoreKeys |-> NoTime]
    /\ lock = None
    /\ tpc = NoTurn
    /\ opc = NoCall
    /\ call = NoSrsCall
    /\ conc = NoConc

Next ==
    \/ \E k \in Keys, started \in BOOLEAN : TurnArrive(k, "answer", started)
    \/ \E outcome \in AgentOutcomes : TurnResume(outcome, TRUE, TRUE)
    \/ \E k \in Keys : TurnFree(k)
    \/ \E k \in Keys : StartSession(k, TRUE)
    \/ \E k \in Keys : LearnNext(k, TRUE)
    \/ \E c \in CardIds, k \in Keys : CreateCard(c, k)
    \/ \E k \in Keys, c \in CardIds : GetOrCreate(k, c)
    \/ Tick
    \/ \E c \in CardIds : DeleteCard(c)
    \/ \E k \in Keys : DeleteDeck(k)
    \/ \E c \in CardIds : UpdateCard(c)

Spec == Init /\ [][Next]_vars

\* The same handlers over a card repository whose replace may fail
InitFault ==
    /\ now = 0
    /\ cards \in {[c \in CardIds |-> IF c = "c1" THEN Card("k1", d) ELSE DeletedCard] :
                      d \in {0, TickStep}}
                \cup {[c \in CardIds |-> Card("k1", 0)]}
                \cup {[c \in CardIds |-> IF c = "c1" THEN Card("k1", d)
                                          ELSE Card("k1", NoTime)] : d \in {0, NoTime}}
    /\ store = << >>
    /\ turns = [k \in Keys |-> NoTurns]
    /\ flight = EmptyBag
    /\ overlap = 0
    /\ faults = 0
    /\ reveals = [k \in Keys |-> 0]
    /\ ev = NoEv
    /\ resp = NoResponse
    /\ configured = TRUE
    /\ deck_repo = "StubDeckRepo"
    /\ obj = NullSession
    /\ objRes = NoRes
    /\ msgSeq = 0
    /\ sinceClear = 0
    /\ cache = NullCache
    /\ sres = NoSres
    /\ touched = [k \in StoreKeys |-> NoTime]
    /\ lock = None
    /\ tpc = NoTurn
    /\ opc = NoCall
    /\ call = NoSrsCall
    /\ conc = NoConc

NextFault ==
    \/ \E k \in Keys : TurnArrive(k, "answer", TRUE)
    \/ \E outcome \in Verdicts, persistOk \in BOOLEAN, backfillOk \in BOOLEAN :
          TurnResume(outcome, persistOk, backfillOk)
    \/ \E k \in Keys : TurnFree(k)
    \/ \E k \in Keys : TurnSelectionFails(k)
    \/ \E k \in Keys, backfillOk \in BOOLEAN : StartSession(k, backfillOk)
    \/ \E k \in Keys, backfillOk \in BOOLEAN : LearnNext(k, backfillOk)
    \/ Tick

FaultSpec == InitFault /\ [][NextFault]_vars

\* The chat handler with explicit reveal requests and an agent that may fail
InitReveal ==
    /\ Init
    /\ cards \in {[c \in CardIds |-> IF c = "c1" THEN Card("k1", 0) ELSE x] :
                      x \in {Card("k1", 0), AbsentCard}}
    /\ configured = TRUE
    /\ deck_repo = "StubDeckRepo"

NextReveal ==
    \/ \E k \in Keys, msg \in Msgs, started \in BOOLEAN : TurnArrive(k, msg, started)
    \/ \E outcome \in AgentOutcomes : TurnResume(outcome, TRUE, TRUE)
    \/ \E k \in Keys : StartSession(k, TRUE)
    \/ Tick

RevealSpec == InitReveal /\ [][NextReveal]_vars

InitSession ==
    /\ now = 0
    /\ cards = [c \in CardIds |-> Card("k1", 0)]
    /\ store = << >>
    /\ turns = [k \in Keys |-> NoTurns]
    /\ flight = EmptyBag
    /\ overlap = 0
    /\ faults = 0
    /\ reveals = [k \in Keys |-> 0]
    /\ ev = NoEv
    /\ resp = NoResponse
    /\ configured = TRUE
    /\ deck_repo = "StubDeckRepo"
    /\ obj \in {create_session("k1", c, 0) : c \in CardIds \cup {None}}
    /\ objRes = NoRes
    /\ msgSeq = 0
    /\ sinceClear = 0
    /\ cache = NullCache
    /\ sres = NoSres
    /\ touched = [k \in StoreKeys |-> NoTime]
    /\ lock = None
    /\ tpc = NoTurn
    /\ opc = NoCall
    /\ call = NoSrsCall
    /\ conc = NoConc

NextSession ==
    \/ \E role \in {"user", "assistant"} : ObjAddMessage(role)
    \/ \E c \in CardIds : ObjStartCard(c)
    \/ ObjStartFreeMode
    \/ ObjResetAgentContext

SessionSpec == InitSession /\ [][NextSession]_vars

\* The store alone, constructed with the default TTL and a small capacity
InitStore ==
    /\ now = 0
    /\ cards = [c \in CardIds |-> Card("k1", 0)]
    /\ store = << >>
    /\ turns = [k \in Keys |-> NoTurns]
    /\ flight = EmptyBag
    /\ overlap = 0
    /\ faults = 0
    /\ reveals = [k \in Keys |-> 0]
    /\ ev = NoEv
    /\ resp = NoResponse
    /\ configured = TRUE
    /\ deck_repo = "StubDeckRepo"
    /\ obj = NullSession
    /\ objRes = NoRes
    /\ msgSeq = 0
    /\ sinceClear = 0
    /\ cache \in {new_store(TTL_MINUTES, m) : m \in Maxsizes}
    /\ sres = NoSres
    /\ touched = [k \in StoreKeys |-> NoTime]
    /\ lock = None
    /\ tpc = NoTurn
    /\ opc = NoCall
    /\ call = NoSrsCall
    /\ conc = NoConc

NextStore ==
    \/ \E k \in StoreKeys : SGet(k)
    \/ \E k \in StoreKeys, c \in CardIds : SGetOrCreate(k, c)
    \/ \E k \in StoreKeys, c \in CardIds \cup {None} : SGetOrCreateSession(k, c)
    \/ \E k \in StoreKeys : SUpdate(k)
    \/ \E k \in StoreKeys : SReset(k)
    \/ SClear
    \/ STick

StoreSpec == InitStore /\ [][NextStore]_vars

----------------------------------------------------------------------------
\* The store lock, a chat request that waits for the agent, and another request

AwaitKeys == {"k1", "k2"}
TurnKey == "k1"
OtherCard == "c2"
AwaitOps == {"get", "get_or_create", "update", "reset"}
\* replies of the agent that leave the card unresolved
AwaitOutcomes == {"wrong", "unparsable", "exception"}

\* a with-block that keeps the lock after its body
lock_release_kept(l) == l

\* the end of a "with self._lock:" block
lock_release(l) == None

\* the entry of key is the same object, with new field values
cache_mutate(c, key, value) ==
    [c EXCEPT !.items = [i \in DOMAIN @ |->
        IF @[i].key = key THEN [@[i] EXCEPT !.value = value] ELSE @[i]]]

\* the session object the chat request holds: the cached object itself while
\* the entry it was returned from is in the cache
Held == IF tpc.aliased THEN cache_entry(cache, TurnKey).value ELSE tpc.state

\* the chat request changes the object it holds
mutate_held(value) ==
    IF tpc.aliased
    THEN /\ cache' = cache_mutate(cache, TurnKey, value)
         /\ UNCHANGED <<sres, touched>>
    ELSE UNCHANGED <<cache, sres, touched>>

\* chat_with_tutor is called
TurnStart ==
    /\ tpc.at = "idle" /\ tpc.n < MaxAwaitTurns
    /\ tpc' = [tpc EXCEPT !.at = "call_fetch"]
    /\ UNCHANGED <<srsVars, concVars, coreVars, objVars, cacheVars, lock, opc>>

\* the chat request enters a with-block of the store
TurnAcquire ==
    /\ tpc.at \in {"call_fetch", "call_update"} /\ lock = None
    /\ lock' = "turn"
    /\ tpc' = [tpc EXCEPT !.at = IF @ = "call_fetch" THEN "in_fetch" ELSE "in_update"]
    /\ UNCHANGED <<srsVars, concVars, coreVars, objVars, cacheVars, opc>>

\* get_or_create_session under the lock, and its return
TurnFetch ==
    /\ tpc.at = "in_fetch" /\ lock = "turn"
    /\ LET r == SessionStore_get_or_create_session(cache, TurnKey, None, now)
       IN /\ cache' = r.cache
          /\ sres' = [NoSres EXCEPT !.op = "get_or_create_session", !.key = TurnKey]
          /\ touched' = Touch(r.cache, now, TurnKey)
          /\ tpc' = [tpc EXCEPT !.at = "fetched", !.state = r.state, !.aliased = TRUE]
    /\ lock' = lock_release(lock)
    /\ UNCHANGED <<srsVars, concVars, coreVars, objVars, opc>>

\* the card is selected, the attempt is counted and the agent is called
TurnSend ==
    /\ tpc.at = "fetched"
    /\ \E due \in get_next_due_for_deck(cards, TurnKey, now) :
          LET s0 == Held
              s1 == IF s0.mode = "card" /\ s0.card_id # None THEN s0
                    ELSE select_state(s0, due)
              s2 == count_attempt(s1)
          IN /\ due # None
             /\ mutate_held(s2)
             /\ tpc' = [tpc EXCEPT !.at = "waiting", !.state = s2]
    /\ UNCHANGED <<srsVars, concVars, coreVars, objVars, lock, opc>>

\* the agent answers and the handler runs up to its update of the store
AgentReplies(outcome) ==
    /\ tpc.at = "waiting"
    /\ LET s3 == send_message(Held, "answer", outcome).state
       IN /\ mutate_held(s3)
          /\ tpc' = [tpc EXCEPT !.at = "call_update", !.state = s3]
    /\ UNCHANGED <<srsVars, concVars, coreVars, objVars, lock, opc>>

\* update under the lock, and the return of the handler
TurnUpdate ==
    /\ tpc.at = "in_update" /\ lock = "turn"
    /\ cache' = SessionStore_update(cache, TurnKey, Held, now)
    /\ sres' = [NoSres EXCEPT !.op = "update", !.key = TurnKey]
    /\ touched' = Touch(cache', now, TurnKey)
    /\ tpc' = [NoTurn EXCEPT !.n = tpc.n + 1]
    /\ opc' = IF opc.aliased /\ opc.key = TurnKey /\ ~tpc.aliased
              THEN [opc EXCEPT !.aliased = FALSE,
                               !.state = cache_entry(cache, TurnKey).value]
              ELSE opc
    /\ lock' = lock_release(lock)
    /\ UNCHANGED <<srsVars, concVars, coreVars, objVars>>

\* the session object the other request passes to update: the cached object
\* itself while the entry it was read from is in the cache
Passed == IF opc.aliased THEN cache_entry(cache, opc.key).value ELSE opc.state

\* another request calls an operation of the store.  The argument of update is
\* bound here, before the lock is taken: the session that is live under the
\* key, or one the caller has created
OtherCall(op, k, c) ==
    /\ opc.at = "idle"
    /\ op = "get_or_create" <=> c # None
    /\ LET live == live_value(cache, k, now)
       IN opc' = [at |-> "call", op |-> op, key |-> k, card |-> c, during |-> FALSE,
                  state |-> IF op = "update" /\ live = NullSession
                            THEN create_session(k, None, now) ELSE NullSession,
                  aliased |-> op = "update" /\ live # NullSession]
    /\ UNCHANGED <<srsVars, concVars, coreVars, objVars, cacheVars, lock, tpc>>

OtherAcquire ==
    /\ opc.at = "call" /\ lock = None
    /\ lock' = "other"
    /\ opc' = [opc EXCEPT !.at = "locked", !.during = (tpc.at = "waiting")]
    /\ UNCHANGED <<srsVars, concVars, coreVars, objVars, cacheVars, tpc>>

\* the body of the operation under the lock, and its return
OtherBody ==
    /\ opc.at = "locked" /\ lock = "other"
    /\ LET k == opc.key
           before == live_value(cache, k, now)
           c2 == CASE opc.op = "get" -> SessionStore_get(cache, k, now).cache
                   [] opc.op = "get_or_create"
                        -> SessionStore_get_or_create(cache, k, opc.card, now).cache
                   [] opc.op = "update" -> SessionStore_update(cache, k, Passed, now)
                   [] opc.op = "reset" -> SessionStore_reset(cache, k, now)
           created == opc.op = "get_or_create" /\ before = NullSession
           replaced == opc.op = "update" /\ ~opc.aliased
           kept == k # TurnKey
                   \/ (TurnKey \in cache_keys(c2) /\ ~created /\ ~replaced)
       IN /\ cache' = c2
          /\ sres' = [NoSres EXCEPT !.op = opc.op, !.key = k, !.card = opc.card]
          /\ touched' = IF opc.op = "reset" THEN [touched EXCEPT ![k] = NoTime]
                        ELSE Touch(c2, now, IF live_value(c2, k, now) # NullSession
                                            THEN k ELSE None)
          /\ tpc' = IF tpc.aliased /\ ~kept
                    THEN [tpc EXCEPT !.aliased = FALSE, !.state = Held]
                    ELSE tpc
    /\ opc' = [opc EXCEPT !.at = "idle", !.during = @ /\ tpc.at = "waiting",
                          !.state = NullSession, !.aliased = FALSE]
    /\ lock' = lock_release(lock)
    /\ UNCHANGED <<srsVars, concVars, coreVars, objVars>>

InitAwait ==
    /\ now = 0
    /\ cards = [c \in CardIds |-> Card("k1", 0)]
    /\ store = << >>
    /\ turns = [k \in Keys |-> NoTurns]
    /\ flight = EmptyBag
    /\ overlap = 0
    /\ faults = 0
    /\ reveals = [k \in Keys |-> 0]
    /\ ev = NoEv
    /\ resp = NoResponse
    /\ configured = TRUE
    /\ deck_repo = "StubDeckRepo"
    /\ obj = NullSession
    /\ objRes = NoRes
    /\ msgSeq = 0
    /\ sinceClear = 0
    /\ cache = new_store(TTL_MINUTES, Cardinality(AwaitKeys))
    /\ sres = NoSres
    /\ touched = [k \in StoreKeys |-> NoTime]
    /\ lock = None
    /\ tpc = NoTurn
    /\ opc = NoCall
    /\ call = NoSrsCall
    /\ conc = NoConc

NextAwait ==
    \/ TurnStart
    \/ TurnAcquire
    \/ TurnFetch
    \/ TurnSend
    \/ \E outcome \in AwaitOutcomes : AgentReplies(outcome)
    \/ TurnUpdate
    \/ \E op \in AwaitOps, k \in AwaitKeys, c \in {None, OtherCard} : OtherCall(op, k, c)
    \/ OtherAcquire
    \/ OtherBody

\* a request that can take the lock takes it, and a with-block runs to its
\* end; nothing is assumed about when the agent answers
AwaitSpec ==
    InitAwait /\ [][NextAwait]_vars /\ WF_vars(OtherAcquire) /\ WF_vars(OtherBody)

----------------------------------------------------------------------------
\* Calendar time: ISO strings, datetimes and their conversions

\* "YYYY-MM-DDTHH:MM:SSZ"
Iso(y, mo, d, h, mi, sec) ==
    [year |-> y, month |-> mo, day |-> d, hour |-> h, minute |-> mi, second |-> sec]

is_leap(y) == y % 4 = 0 /\ (y % 100 # 0 \/ y % 400 = 0)

DAYS_IN_MONTH == <<31, 28, 31, 30, 31, 30, 31, 31, 30, 31, 30, 31>>
DAYS_BEFORE_MONTH == <<0, 31, 59, 90, 120, 151, 181, 212, 243, 273, 304, 334>>

days_before_year(y) ==
    (y - 1) * 365 + (y - 1) \div 4 - (y - 1) \div 100 + (y - 1) \div 400

days_before_month(y, mo) ==
    DAYS_BEFORE_MONTH[mo] + (IF mo > 2 /\ is_leap(y) THEN 1 ELSE 0)

\* the proleptic Gregorian ordinal of a date, 0001-01-01 is day 1
ymd2ord(y, mo, d) == days_before_year(y) + days_before_month(y, mo) + d

\* the date of an ordinal
ord2ymd(ord) ==
    LET n0 == ord - 1
        n400 == n0 \div 146097
        r400 == n0 % 146097
        n100 == r400 \div 36524
        r100 == r400 % 36524
        n4 == r100 \div 1461
        r4 == r100 % 1461
        n1 == r4 \div 365
        n == r4 % 365
        year == n400 * 400 + 1 + n100 * 100 + n4 * 4 + n1
    IN IF n1 = 4 \/ n100 = 4
       THEN [year |-> year - 1, month |-> 12, day |-> 31]
       ELSE LET leapyear == n1 = 3 /\ (n4 # 24 \/ n100 = 3)
                leap(mo) == IF mo > 2 /\ leapyear THEN 1 ELSE 0
                month0 == (n + 50) \div 32
                preceding0 == DAYS_BEFORE_MONTH[month0] + leap(month0)
                month == IF preceding0 > n THEN month0 - 1 ELSE month0
                preceding == DAYS_BEFORE_MONTH[month] + leap(month)
            IN [year |-> year, month |-> month, day |-> n - preceding + 1]

\* parse_iso_z: a datetime is the minutes since 0001-01-01T00:00 and the second
parse_iso_z(iso) ==
    [minutes |-> (ymd2ord(iso.year, iso.month, iso.day) - 1) * 1440
                    + iso.hour * 60 + iso.minute,
     second |-> iso.second]

\* utc_datetime_to_iso_z
utc_datetime_to_iso_z(dt) ==
    LET ymd == ord2ymd(dt.minutes \div 1440 + 1)
        m == dt.minutes % 1440
    IN Iso(ymd.year, ymd.month, ymd.day, m \div 60, m % 60, dt.second)

\* _due_at_for_grade on a parsed utc_now_iso(): the due date as an ISO string
due_at_iso(now_iso, grade) ==
    LET now_dt == parse_iso_z(now_iso)
        due == due_at_for_grade(now_dt.minutes, grade)
    IN IF due = NoTime
       THEN [ok |-> FALSE, value |-> now_iso]
       ELSE [ok |-> TRUE, value |-> utc_datetime_to_iso_z([now_dt EXCEPT !.minutes = due])]

----------------------------------------------------------------------------
\* The spaced-repetition functions called on their own

SrsDates == {<<2025, 12, 31>>, <<2025, 12, 30>>, <<2025, 12, 28>>, <<2024, 12, 31>>,
             <<2024, 2, 28>>, <<2024, 2, 25>>, <<2023, 2, 28>>, <<2100, 2, 28>>,
             <<2000, 2, 26>>, <<2025, 4, 30>>, <<2025, 6, 15>>}
SrsTimes == {<<0, 0, 0>>, <<12, 30, 15>>, <<23, 0, 0>>, <<23, 50, 59>>, <<23, 59, 0>>}
SrsInstants ==
    {Iso(d[1], d[2], d[3], t[1], t[2], t[3]) : d \in SrsDates, t \in SrsTimes}
SrsGrades == Grades \cup {"perfect"}
SrsAttempts == (0 - 2) .. MaxGradeAttempts
SrsQualities == (0 - 2) .. 7
\* ease factors written with two decimals, and 2.7 + 0.1 = 2.8000000000000003
SrsEase == {float_literal(h) : h \in {130, 136, 150, 170, 210, 236, 250, 260, 280}}
               \cup {float_add[float_literal(270), float_literal(10)]}
SrsRepetitions == 0 .. 3
SrsIntervals == {0, 1, 6, 15, 16, 45}

CallComputeGrade(revealed, attempt_count) ==
    /\ call = NoSrsCall
    /\ call' = [fn |-> "compute_grade", args |-> <<revealed, attempt_count>>,
                result |-> compute_grade(revealed, attempt_count)]
    /\ UNCHANGED <<coreVars, objVars, cacheVars, lockVars, concVars>>

CallDueAt(now_iso, grade) ==
    /\ call = NoSrsCall
    /\ call' = [fn |-> "due_at", args |-> <<now_iso, grade>>,
                result |-> due_at_iso(now_iso, grade)]
    /\ UNCHANGED <<coreVars, objVars, cacheVars, lockVars, concVars>>

CallApplySm2(ease_factor, repetitions, interval_days, quality) ==
    /\ call = NoSrsCall
    /\ call' = [fn |-> "apply_sm2",
                args |-> <<ease_factor, repetitions, interval_days, quality>>,
                result |-> apply_sm2(ease_factor, repetitions, interval_days, quality)]
    /\ UNCHANGED <<coreVars, objVars, cacheVars, lockVars, concVars>>

\* learner ids, deck ids and creation times handed to _generate_conversation_id
IdLearners == {"u1", "u2", "u1:d1"}
IdDecks == {"d1", "d2", "d1:d2"}
IdTimes == {"2024-01-01T00:00:00Z", "2024-01-01T00:01:00Z"}

CallGenerateConversationId(user_id, deck_id, created_at) ==
    /\ call = NoSrsCall
    /\ call' = [fn |-> "generate_conversation_id",
                args |-> <<user_id, deck_id, created_at>>,
                result |-> generate_conversation_id(user_id, deck_id, created_at)]
    /\ UNCHANGED <<coreVars, objVars, cacheVars, lockVars, concVars>>

\* the number of gradings submitted so far
Gradings ==
    IF call.fn \in {"submit_card_review_grade", "wait"} THEN call.result.n ELSE 0

\* for each card the first clock reading of its last stored grading
GradedAt ==
    IF call.fn \in {"submit_card_review_grade", "wait"} THEN call.result.gradedAt
    ELSE [c \in CardIds |-> NoTime]

\* a resolved card is graded: submit_card_review_grade on a card that is due; the
\* second clock read of apply_review_grade comes lag minutes after the first
Submit(c, revealed, attempt_count, lag, persistOk) ==
    /\ call.fn \in {"none", "submit_card_review_grade", "wait"}
    /\ Gradings < MaxGradings
    /\ cards[c].dueAt <= now
    /\ \E sub \in {submit_card_review_grade(cards, c, cards[c], revealed, attempt_count,
                                              <<now, now + lag>>, persistOk)} :
          /\ cards' = sub.cards
          /\ call' = [fn |-> "submit_card_review_grade",
                      args |-> <<c, revealed, attempt_count>>,
                      result |-> [ok |-> sub.ok, before |-> cards[c],
                                  n |-> Gradings + 1, reads |-> <<now, now + lag>>,
                                  gradedAt |-> IF sub.ok
                                               THEN [GradedAt EXCEPT ![c] = now]
                                               ELSE GradedAt]]
    /\ now' = now + lag
    /\ UNCHANGED <<store, turns, ev, resp, flight, overlap, faults, configured, deck_repo, reveals,
                   objVars, cacheVars, lockVars, concVars>>

\* time passes until a graded card is due again
Wait(c) ==
    /\ call.fn = "submit_card_review_grade"
    /\ Gradings < MaxGradings
    /\ cards[c].dueAt > now
    /\ now' = cards[c].dueAt
    /\ call' = [call EXCEPT !.fn = "wait"]
    /\ UNCHANGED <<cards, store, turns, ev, resp, flight, overlap, faults, configured, deck_repo, reveals,
                   objVars, cacheVars, lockVars, concVars>>

InitSrs ==
    /\ now = 0
    /\ cards = [c \in CardIds |-> Card("k1", 0)]
    /\ store = << >>
    /\ turns = [k \in Keys |-> NoTurns]
    /\ flight = EmptyBag
    /\ overlap = 0
    /\ faults = 0
    /\ reveals = [k \in Keys |-> 0]
    /\ ev = NoEv
    /\ resp = NoResponse
    /\ configured = TRUE
    /\ deck_repo = "StubDeckRepo"
    /\ obj = NullSession
    /\ objRes = NoRes
    /\ msgSeq = 0
    /\ sinceClear = 0
    /\ cache = NullCache
    /\ sres = NoSres
    /\ touched = [k \in StoreKeys |-> NoTime]
    /\ lock = None
    /\ tpc = NoTurn
    /\ opc = NoCall
    /\ call = NoSrsCall
    /\ conc = NoConc

NextSrs ==
    \/ /\ call = NoSrsCall
       /\ \E revealed \in BOOLEAN, n \in SrsAttempts : CallComputeGrade(revealed, n)
    \/ /\ call = NoSrsCall
       /\ \E t \in SrsInstants, g \in SrsGrades : CallDueAt(t, g)
    \/ /\ call = NoSrsCall
       /\ \E ef \in SrsEase, reps \in SrsRepetitions, iv \in SrsIntervals,
             q \in SrsQualities : CallApplySm2(ef, reps, iv, q)
    \/ \E c \in CardIds, revealed \in BOOLEAN, n \in 0 .. 4, lag \in {0, 1},
          persistOk \in BOOLEAN : Submit(c, revealed, n, lag, persistOk)
    \/ \E c \in CardIds : Wait(c)
    \/ /\ call = NoSrsCall
       /\ \E u \in IdLearners, d \in IdDecks, t \in IdTimes :
             CallGenerateConversationId(u, d, t)

SrsSpec == InitSrs /\ [][NextSrs]_vars

----------------------------------------------------------------------------
\* Chat requests of one learner and deck in flight together.  The handlers are
\* coroutines of one event loop: a request runs alone from its arrival to the await
\* of the agent call inside send_message, and alone again from the agent's answer
\* to its response.  All requests hold the session object of the cache.  The
\* requests come so close together that every clock read gives the same time.

ConcKey == "k1"
\* the message of every request; it is no reveal request, so the part of
\* send_message before the await changes nothing
ConcMsg == "answer"
ConcOutcomes == {"wrong", "correct", "revealed"}

\* _handle_card_mode_chat after the await: the verdict is applied to the session
\* as it is now, and a resolved card is graded through the card document the
\* request read at its arrival
card_turn_resumed(s, cs, card, doc, outcome, t) ==
    LET sm == send_message(s, ConcMsg, outcome)
        r == sm.response
        resolves == card_resolved_now(sm.state, r)
        s3 == IF resolves
              THEN [sm.state EXCEPT !.resolved_at = t,
                                    !.is_correct = r.is_correct,
                                    !.revealed = r.revealed]
              ELSE sm.state
        sub == IF resolves
               THEN submit_card_review_grade(cs, card, doc, r.revealed,
                                             s3.attempt_count, <<t, t>>, TRUE)
               ELSE [ok |-> TRUE, cards |-> cs]
    IN [state |-> s3, response |-> r, resolves |-> resolves, ok |-> sub.ok,
        cards |-> IF sub.ok THEN sub.cards ELSE cs]

\* chat_with_tutor from its call to the await of the agent; a request without a
\* card ends at once, since the client has no attribute send_free_mode_message
ConcArrive ==
    /\ Len(conc.reqs) < MaxConcTurns
    /\ \E k \in {ConcKey} :
       \E s0 \in {get_or_create_session(store, k, None, now).state} :
       \E act \in {active_card(s0, cards, k)} :
       \E due \in (IF act = None THEN get_next_due_for_deck(cards, k, now)
                   ELSE {"n/a"}) :
       \E cards1 \in {IF act = None THEN backfill(cards, due, now) ELSE cards} :
       \E s1 \in {IF act = None THEN select_state(s0, due) ELSE s0} :
       \E card \in {IF act # None THEN act ELSE due} :
       \E in_card \in {s1.mode = "card" /\ card # None} :
       \E s2 \in {IF in_card THEN count_attempt(s1) ELSE s1} :
       \E activation \in {IF act = None /\ due # None THEN conc.activation + 1
                          ELSE conc.activation} :
             /\ store' = update(store, k, s2)
             /\ cards' = cards1
             /\ resp' = IF in_card THEN NoResponse ELSE Response(HTTP_ERROR, None, None)
             /\ conc' = [conc EXCEPT
                    !.reqs = Append(@, [at |-> IF in_card THEN "waiting" ELSE "done",
                                        handler |-> IF in_card THEN "card" ELSE "free",
                                        card |-> IF in_card THEN card ELSE None,
                                        doc |-> IF in_card THEN cards1[card]
                                                ELSE DeletedCard,
                                        act |-> activation,
                                        status |-> IF in_card THEN None
                                                   ELSE HTTP_ERROR]),
                    !.activation = activation]
    /\ UNCHANGED <<now, turns, ev, flight, overlap, faults, configured, deck_repo, reveals, objVars, cacheVars, lockVars,
                   srsVars>>

\* _handle_card_mode_chat from the agent's answer to the response
ConcResumeCard(r, outcome) ==
    /\ r \in DOMAIN conc.reqs
    /\ conc.reqs[r].at = "waiting" /\ conc.reqs[r].handler = "card"
    /\ \E k \in {ConcKey}, q \in {conc.reqs[r]} :
       \E ct \in {card_turn_resumed(store[k], cards, q.card, q.doc, outcome, now)} :
       \E called \in {IF ct.resolves
                      THEN conc.calls \cup {<<ct.response.revealed, ct.state.attempt_count>>}
                      ELSE conc.calls} :
       LET done(status) == [conc EXCEPT !.reqs[r] = [@ EXCEPT !.at = "done",
                                                              !.doc = DeletedCard,
                                                              !.status = status],
                                        !.calls = called]
       IN IF ~ct.resolves
          THEN /\ store' = update(store, k, ct.state)
               /\ cards' = cards
               /\ resp' = Response(HTTP_OK, "card", q.card)
               /\ conc' = done(HTTP_OK)
          ELSE IF ~ct.ok
          THEN \* compute_grade raised: the turn ends in the handler's except branch
               /\ store' = update(store, k, ct.state)
               /\ cards' = cards
               /\ resp' = Response(HTTP_ERROR, None, None)
               /\ conc' = done(HTTP_ERROR)
          ELSE \E next \in get_next_due_for_deck(ct.cards, k, now) :
               /\ store' = update(store, k, advance(ct.state, next))
               /\ cards' = backfill(ct.cards, next, now)
               /\ resp' = IF next # None THEN Response(HTTP_OK, "card", next)
                          ELSE Response(HTTP_OK, "free", None)
               /\ conc' = [done(HTTP_OK) EXCEPT
                      !.grades = Append(@, [card |-> q.card,
                                            act |-> q.act,
                                            active |-> ct.state.card_id,
                                            attempts |-> ct.state.attempt_count]),
                      !.activation = IF next # None THEN @ + 1 ELSE @]
    /\ UNCHANGED <<now, turns, ev, flight, overlap, faults, configured, deck_repo, reveals, objVars, cacheVars, lockVars,
                   srsVars>>

InitConc ==
    /\ now = 0
    /\ cards \in [CardIds -> {Card(ConcKey, d) : d \in {0, TickStep}}]
    /\ store = << >>
    /\ turns = [k \in Keys |-> NoTurns]
    /\ flight = EmptyBag
    /\ overlap = 0
    /\ faults = 0
    /\ reveals = [k \in Keys |-> 0]
    /\ ev = NoEv
    /\ resp = NoResponse
    /\ configured = TRUE
    /\ deck_repo = "StubDeckRepo"
    /\ obj = NullSession
    /\ objRes = NoRes
    /\ msgSeq = 0
    /\ sinceClear = 0
    /\ cache = NullCache
    /\ sres = NoSres
    /\ touched = [k \in StoreKeys |-> NoTime]
    /\ lock = None
    /\ tpc = NoTurn
    /\ opc = NoCall
    /\ call = NoSrsCall
    /\ conc = NoConc

NextConc ==
    \/ ConcArrive
    \/ \E r \in 1 .. MaxConcTurns, outcome \in ConcOutcomes : ConcResumeCard(r, outcome)

ConcSpec == InitConc /\ [][NextConc]_vars

----------------------------------------------------------------------------
\* A session that only receives turns, on a deck to which no card is added

QueueKey == "k1"
\* the message of every turn, and what the agent makes of it
QueueMsg == "answer"
QueueOutcomes == {"wrong", "correct", "revealed", "exception"}
\* a due date that is not reached while the model's clock runs
FarDue == MaxNow + EASY_MINUTES + 1

InitQueue ==
    /\ now = 0
    /\ cards \in [CardIds -> {Card(QueueKey, d) : d \in {NoTime, 0, FarDue}}]
    /\ store = << >>
    /\ turns = [k \in Keys |-> NoTurns]
    /\ flight = EmptyBag
    /\ overlap = 0
    /\ faults = 0
    /\ reveals = [k \in Keys |-> 0]
    /\ ev = NoEv
    /\ resp = NoResponse
    /\ configured = TRUE
    /\ deck_repo = "StubDeckRepo"
    /\ obj = NullSession
    /\ objRes = NoRes
    /\ msgSeq = 0
    /\ sinceClear = 0
    /\ cache = NullCache
    /\ sres = NoSres
    /\ touched = [k \in StoreKeys |-> NoTime]
    /\ lock = None
    /\ tpc = NoTurn
    /\ opc = NoCall
    /\ call = NoSrsCall
    /\ conc = NoConc

NextQueue ==
    \/ \E started \in BOOLEAN : TurnArrive(QueueKey, QueueMsg, started)
    \/ \E outcome \in QueueOutcomes, persistOk \in BOOLEAN, backfillOk \in BOOLEAN :
          TurnResume(outcome, persistOk, backfillOk)
    \/ TurnFree(QueueKey)
    \/ TurnSelectionFails(QueueKey)
    \/ Tick

QueueSpec == InitQueue /\ [][NextQueue]_vars

----------------------------------------------------------------------------
\* Properties

\* the session stored under the key of the last operation
EvSession == store[ev.key]

\* a turn of the card handler that graded a card: ev.graded is that card
Graded == ev.op = "turn" /\ ev.graded # None

\* C1: when the n-th verdict since the activation of a card resolves it, the
\* card is graded again (+2 min) if the answer was revealed, else easy
\* (+4 days) for n = 1, good (+24 h) for n in 2..3 and hard (+10 min) for
\* n >= 4, and dueAt is the resolution time plus that offset.  The resolution
\* time is the time apply_review_grade reads first; its second reading is
\* stored as lastGradedAt.
C1_GradeFromAttemptNumber ==
    Graded =>
        LET c == cards[ev.graded]
            n == ev.verdictNo
            grade == IF ev.revealed THEN "again"
                     ELSE IF n = 1 THEN "easy"
                     ELSE IF n \in {2, 3} THEN "good"
                     ELSE "hard"
            offset == IF ev.revealed THEN 2
                      ELSE IF n = 1 THEN 4 * 24 * 60
                      ELSE IF n \in {2, 3} THEN 24 * 60
                      ELSE 10
        IN /\ n >= 1
           /\ ev.correct \/ ev.revealed
           /\ c.lastGrade = grade
           /\ c.lastGradedAt = ev.reads[3]
           /\ c.dueAt = ev.reads[2] + offset
           /\ ev.reads[1] <= ev.reads[2] /\ ev.reads[2] <= ev.reads[3]
           /\ ev.reads[3] <= now

\* the scheduling fields that grading writes
Scheduling(c) ==
    <<c.easeFactor, c.repetitions, c.intervalDays, c.lastGrade, c.lastGradedAt,
      c.lastReviewedAt>>

\* C2: a turn of the card handler whose verdict is neither correct nor
\* revealed leaves every stored card as it was: no scheduling field changes,
\* and dueAt changes only where the selection step of the same turn filled in
\* the missing dueAt of the card it selected; a turn that arrives on its
\* active card changes no card at all.
C2_NoGradeBeforeResolution ==
    [][(ev'.op = "turn" /\ ev'.handler = "card" /\ ~ev'.correct /\ ~ev'.revealed)
       => /\ \A c \in CardIds :
                /\ Scheduling(cards'[c]) = Scheduling(cards[c])
                /\ cards'[c].present = cards[c].present
                /\ cards'[c].deckId = cards[c].deckId
                /\ cards'[c].dueAt # cards[c].dueAt
                      => /\ cards[c].dueAt = NoTime
                         /\ c = ev'.selDue
          /\ ev'.selDue = "n/a" => cards' = cards]_vars

\* a second wrong answer on the active card was answered and left it ungraded
C2_Witness ==
    /\ ev.op = "turn" /\ ev.handler = "card" /\ ev.phase = "last"
    /\ ev.agent = "verdict" /\ ~ev.correct /\ ~ev.revealed
    /\ ev.turnNo = 2 /\ ev.verdictNo = 2
    /\ resp.status = HTTP_OK
    /\ EvSession.card_id \in CardIds
    /\ cards[EvSession.card_id].lastGrade = None

\* C3: every stored session is either in card mode with a card id or in free
\* mode without one.
C3_ModeMatchesCard ==
    \A k \in DOMAIN store :
        \/ store[k].mode = "card" /\ store[k].card_id \in CardIds
        \/ store[k].mode = "free" /\ store[k].card_id = None

\* a turn of the card handler graded its card and ended in free mode
C3_Witness ==
    /\ Graded /\ ev.nextDue = None
    /\ EvSession.mode = "free" /\ EvSession.card_id = None

\* C4: at the end of a turn whose verdict resolved the active card the session
\* has an empty history, zero counters and no resolution time; it is in card
\* mode on the card the repository returned after the grade was written, and
\* in free mode exactly when nothing was due then.
C4_AdvanceAfterResolution ==
    (ev.op = "turn" /\ ev.resolves) =>
        /\ EvSession.msgs = << >>
        /\ EvSession.attempt_count = 0
        /\ EvSession.explicit_reveal_request_count = 0
        /\ EvSession.resolved_at = NoTime
        /\ ev.graded # None
        /\ ev.nextDue # None
              => /\ EvSession.mode = "card" /\ EvSession.card_id = ev.nextDue
                 /\ ev.nextDue \in DueCards(cards, ev.key, now)
        /\ ev.nextDue = None
              => /\ EvSession.mode = "free" /\ EvSession.card_id = None
                 /\ DueCards(cards, ev.key, now) = {}
                 /\ LegacyCards(cards, ev.key) = {}

\* C5: a session created or started is in card mode on the card the
\* repository returned, which is due, in free mode when it returned none, as
\* nothing was due at the time of the query, and in both cases has
\* attempt_count 0 and an empty history.
C5_StartSelectsDueCard ==
    /\ ev.op = "start" =>
          /\ ev.selDue # None
                => /\ EvSession.mode = "card" /\ EvSession.card_id = ev.selDue
                   /\ ev.selDue \in DueCards(cards, ev.key, now)
          /\ ev.selDue = None
                => /\ EvSession.mode = "free" /\ EvSession.card_id = None
                   /\ DueCards(cards, ev.key, ev.selAt) = {}
                   /\ LegacyCards(cards, ev.key) = {}
          /\ EvSession.attempt_count = 0
          /\ EvSession.msgs = << >>
    /\ ev.op = "get_or_create" /\ ev.created =>
          /\ EvSession.mode = "card" /\ EvSession.card_id = ev.selDue
          /\ EvSession.attempt_count = 0
          /\ EvSession.msgs = << >>
    /\ ev.op = "turn" /\ ev.created =>
          /\ ev.selDue # None => ev.selMode = "card" /\ ev.selCard = ev.selDue
          /\ ev.selDue = None => ev.selMode = "free" /\ ev.selCard = None
          /\ ev.selFresh

\* a start on an existing session moved it to a due card
C5_Witness ==
    /\ ev.op = "start" /\ ~ev.created
    /\ ev.selDue \in CardIds
    /\ EvSession.mode = "card" /\ EvSession.card_id = ev.selDue

\* C6: a turn that arrives at the card handler on an unresolved card raises
\* attempt_count by exactly one, a turn that arrives on a card that is already
\* resolved leaves it as it is, no other step raises it (the answer of the
\* agent does not), and the count that is graded at the resolution is the
\* number of turns submitted since the card became active.
C6_AttemptCountSteps ==
    [][/\ (ev'.op = "turn" /\ ev'.handler = "card" /\ ev'.phase # "last") =>
            LET k == ev'.key
                onActive == ev'.selDue = "n/a"
                before == IF onActive THEN store[k].attempt_count ELSE 0
                resolvedBefore == onActive /\ store[k].resolved_at # NoTime
            IN /\ ~resolvedBefore => /\ ev'.attempts = before + 1
                                     /\ store'[k].attempt_count = before + 1
               /\ resolvedBefore => /\ ev'.attempts = before
                                    /\ store'[k].attempt_count = before
       /\ (ev'.op = "turn" /\ ev'.phase = "last") =>
            LET k == ev'.key
            IN /\ ev'.attempts = store[k].attempt_count
               /\ store[k].resolved_at # NoTime => ~ev'.resolves
               /\ ev'.resolves => ev'.attempts = ev'.turnNo
       /\ \A k \in DOMAIN store \cap DOMAIN store' :
             store'[k].attempt_count > store[k].attempt_count
                => /\ ev'.op = "turn" /\ ev'.handler = "card" /\ ev'.key = k
                   /\ ev'.phase # "last"
                   /\ store'[k].attempt_count = store[k].attempt_count + 1
                   /\ ev'.selDue = "n/a" => store[k].resolved_at = NoTime]_vars

\* a turn arrived on a card that was resolved on its second turn and whose
\* grade was not persisted; the count stayed at two
C6_Witness ==
    /\ ev.op = "turn" /\ ev.handler = "card" /\ ev.phase = "first"
    /\ ev.arrResolved /\ ev.selDue = "n/a"
    /\ EvSession.attempt_count = 2
    /\ ev.turnNo = 3

\* the history limit of the mode the session object is in
Limit(s) == IF s.mode = "card" THEN 6 ELSE 10

\* C7: the history of a session never holds more than 6 messages in card
\* mode and 10 in free mode, and after an append it is the most recent
\* messages, up to the limit, in their original order.
C7_HistoryWindow ==
    /\ Len(obj.msgs) <= Limit(obj)
    /\ objRes.op = "add" =>
          LET all == Append(objRes.pre, objRes.msg)
              kept == Len(obj.msgs)
          IN /\ kept = Min(Len(all), Limit(obj))
             /\ \A i \in 1..kept : obj.msgs[i] = all[Len(all) - kept + i]

\* an append to a full card-mode history dropped the oldest message
C7_Witness ==
    /\ objRes.op = "add" /\ obj.mode = "card"
    /\ Len(objRes.pre) = 6 /\ Len(obj.msgs) = 6
    /\ obj.msgs[1] = objRes.pre[2]
    /\ obj.msgs[6] = objRes.msg

\* C8: an append signals a rollover exactly when the session is in free mode
\* and the append took the history above 10 messages; in card mode the
\* signal is never raised.
C8_RolloverSignal ==
    objRes.op = "add" =>
        /\ objRes.window_rolled_over
              <=> (obj.mode = "free" /\ Len(objRes.pre) + 1 > 10)
        /\ obj.mode = "card" => ~objRes.window_rolled_over

\* an append in free mode was trimmed and signalled the rollover
C8_Witness ==
    /\ objRes.op = "add" /\ obj.mode = "free"
    /\ objRes.window_rolled_over
    /\ Len(objRes.pre) = 10 /\ Len(obj.msgs) = 10

\* C9: a turn that arrives at a free-mode session moves it to card mode only
\* if the history was trimmed during that turn (and a card is due); a turn
\* without trimming leaves the session in free mode.
C9_FreeLeavesOnlyOnTrim ==
    (/\ ev.op = "turn" /\ ev.phase = "whole"
     /\ ~ev.created /\ ev.arrMode = "free" /\ ~ev.trimmed)
        => EvSession.mode = "free"

\* C10: when the active card of a session was deleted or has left the deck,
\* the turn is answered, the card that vanished is not written, and the
\* selection step leaves the session in card mode on a due card with fresh
\* counters, or in free mode without a card when nothing is due.
C10_VanishedCardReselects ==
    [][/\ (ev'.op = "turn" /\ ev'.vanished /\ ev'.phase # "last") =>
          LET k == ev'.key
              gone == store[k].card_id
          IN /\ (ev'.phase = "whole" /\ configured) => resp'.status = HTTP_OK
             /\ cards'[gone] = cards[gone]
             /\ ev'.selDue \in get_next_due_for_deck(cards, k, now)
             /\ ev'.selDue # None
                   => /\ ev'.selMode = "card" /\ ev'.selCard = ev'.selDue
                      /\ ev'.selFresh
                      /\ ev'.handler = "card"
             /\ ev'.selDue = None
                   => /\ ev'.selMode = "free" /\ ev'.selCard = None
                      /\ ev'.handler = "free"
       /\ (ev'.op = "turn" /\ ev'.vanished /\ ev'.phase = "last") =>
          resp'.status = HTTP_OK]_vars

\* C11: a turn whose agent output cannot be parsed into a verdict is handled
\* with a verdict that is neither correct nor revealed, whatever the number
\* of explicit reveal requests, and so neither resolves nor grades the card.
C11_UnparsedVerdictIsNeutral ==
    (ev.op = "turn" /\ ev.handler = "card" /\ ev.agent = "unparsable")
        => /\ ~ev.correct /\ ~ev.revealed
           /\ ~ev.resolves
           /\ ev.graded = None

\* C12: a turn submitted while the agent client cannot be constructed, or
\* whose call to the agent fails, is answered with status 200 and the
\* fallback verdict (not correct, not revealed) and leaves a session stored.
C12_UnavailableAgentFallsBack ==
    (ev.op = "turn" /\ (~configured \/ ev.agent = "failed"))
        => /\ resp.status = HTTP_OK
           /\ ~ev.correct /\ ~ev.revealed
           /\ ev.key \in DOMAIN store

\* C13: a turn that fails before it reaches its store update leaves the
\* session stored under its key exactly as it was before the turn began.
C13_FailedTurnLeavesStoreUntouched ==
    [][(/\ ev'.op = "turn" /\ ev'.phase = "whole"
        /\ resp'.status # HTTP_OK /\ ev'.key \in DOMAIN store)
          => /\ ev'.key \in DOMAIN store'
             /\ store'[ev'.key] = store[ev'.key]]_vars

\* C14: the request of a card-mode turn carries the reveal instruction
\* exactly when at least two explicit reveal requests were made since the
\* card was activated (this message included) and the session does not
\* record the answer as revealed; the stored count is the number of explicit
\* requests of the current activation, so other messages and requests made
\* against an earlier card do not count.
C14_RevealAnnotation ==
    [][/\ (/\ ev'.op = "turn" /\ ev'.handler = "card"
           /\ ev'.phase # "last" /\ ev'.agent # None)
             => LET revealedBefore == IF ev'.selDue = "n/a"
                                      THEN store[ev'.key].revealed ELSE FALSE
                IN ev'.annotated <=> (reveals'[ev'.key] >= 2 /\ ~revealedBefore)
       /\ \A k \in DOMAIN store' :
             store'[k].mode = "card"
                => store'[k].explicit_reveal_request_count = reveals'[k]]_vars

\* the second explicit request against a card whose answer was not revealed
\* was sent with the instruction
C14_Witness ==
    /\ ev.op = "turn" /\ ev.handler = "card" /\ ev.phase = "first"
    /\ reveals[ev.key] = 2
    /\ ~EvSession.revealed
    /\ ev.annotated

\* what a newly created session for a card looks like at time t
NewlyCreated(s, k, c, t) ==
    /\ s.mode = "card" /\ s.card_id = c
    /\ s.attempt_count = 0 /\ s.msgs = << >>
    /\ s.created_at = t /\ s.ui_conversation_id = generate_conversation_id(Learner, k, utc_now_text(t))

\* C15: get_or_create on a key whose live session is on another card returns
\* that session re-initialised on the given card (card mode, no attempts,
\* empty history); on the same card it returns the session with its attempt
\* count and history unchanged.
C15_GetOrCreateSwitchesCard ==
    (sres.op = "get_or_create" /\ sres.before # NullSession)
        => /\ sres.state.mode = "card" /\ sres.state.card_id = sres.card
           /\ sres.state.created_at = sres.before.created_at
           /\ sres.before.card_id # sres.card
                 => /\ sres.state.attempt_count = 0
                    /\ sres.state.msgs = << >>
           /\ sres.before.card_id = sres.card
                 => /\ sres.state.attempt_count = sres.before.attempt_count
                    /\ sres.state.msgs = sres.before.msgs
           /\ live_value(cache, sres.key, now) = sres.state

\* a session with a recorded turn was switched to another card
C15_Witness ==
    /\ sres.op = "get_or_create" /\ sres.before # NullSession
    /\ sres.before.mode = "card" /\ sres.before.card_id \notin {None, sres.card}
    /\ sres.before.attempt_count = 1 /\ sres.before.msgs # << >>
    /\ sres.state.attempt_count = 0

\* C16: after reset(k) a lookup of k finds nothing, and get_or_create on a
\* key a lookup does not find returns a newly created session on the given
\* card, whatever was removed; a get on such a key returns none; after
\* clear() no key is found.
C16_ResetAndClearRemove ==
    /\ sres.op = "reset" => live_value(cache, sres.key, now) = NullSession
    /\ sres.op = "clear" => /\ cache.items = << >>
                            /\ \A k \in StoreKeys : live_value(cache, k, now) = NullSession
    /\ (sres.op = "get" /\ sres.before = NullSession) => sres.state = NullSession
    /\ (sres.op = "get_or_create" /\ sres.before = NullSession)
          => /\ NewlyCreated(sres.state, sres.key, sres.card, now)
             /\ live_value(cache, sres.key, now) = sres.state

\* a session with a recorded turn was removed by reset
C16_Witness ==
    /\ sres.op = "reset" /\ sres.before # NullSession
    /\ sres.before.attempt_count = 1 /\ sres.before.msgs # << >>
    /\ sres.key \notin cache_keys(cache)

\* C17: an entry last accessed one TTL or more ago is not returned, purged
\* or not: get returns none and get_or_create returns a newly created
\* session.
C17_ExpiredEntryNeverReturned ==
    [][\A k \in StoreKeys :
          (sres'.key = k /\ touched[k] # NoTime /\ now >= touched[k] + TTL_MINUTES)
             => /\ sres'.op = "get" => sres'.state = NullSession
                /\ sres'.op = "get_or_create"
                      => NewlyCreated(sres'.state, k, sres'.card, now)]_vars

\* a get found nothing although the expired entry is still in the cache
C17_Witness ==
    /\ sres.op = "get" /\ sres.state = NullSession
    /\ sres.key \in cache_keys(cache)
    /\ touched[sres.key] # NoTime /\ now >= touched[sres.key] + TTL_MINUTES

\* C18: a successful get, get_or_create or update restarts the inactivity
\* window: an entry accessed less than one TTL ago, and not removed since,
\* is returned by the next lookup, however old the session is.
C18_AccessRestartsWindow ==
    [][/\ \A k \in StoreKeys :
             (sres'.key = k /\ k \in Fresh_keys(touched, now))
                => /\ sres'.op = "get" => /\ sres'.state # NullSession
                                          /\ sres'.state = sres'.before
                   /\ sres'.op \in {"get_or_create", "get_or_create_session"}
                         => /\ sres'.before # NullSession
                            /\ sres'.state.created_at = sres'.before.created_at
       /\ (sres'.op \in {"get", "get_or_create", "get_or_create_session", "update"}
             /\ sres'.state # NullSession)
             => /\ touched'[sres'.key] = now
                /\ cache_entry(cache', sres'.key).expires = now + TTL_MINUTES]_vars

\* a session created one TTL or more ago was returned by get
C18_Witness ==
    /\ sres.op = "get" /\ sres.state # NullSession
    /\ now >= sres.state.created_at + TTL_MINUTES

\* C19: the store never holds more entries than its maximum; creating a
\* session for a new key when the store is full of live entries removes
\* exactly one of them, one accessed no later than any other, and never the
\* one being created.
C19_CapacityEvictsLeastRecent ==
    [][/\ Len(cache'.items) <= cache'.maxsize
       /\ LET k == sres'.key
              live == Fresh_keys(touched, now)
          IN (sres'.op \in {"get_or_create", "get_or_create_session"}
                /\ k \notin live /\ Cardinality(live) = cache.maxsize)
                => /\ Cardinality(sres'.evicted) = 1
                   /\ \A v \in sres'.evicted :
                         /\ v \in live /\ v # k
                         /\ \A u \in live : touched[v] <= touched[u]
                   /\ Fresh_keys(touched', now) = (live \ sres'.evicted) \cup {k}
                   /\ live_value(cache', k, now) = sres'.state]_vars

\* a third key was admitted to a full store of two live entries: one was
\* evicted and the other is still found
C19_Witness ==
    /\ sres.op = "get_or_create" /\ cache.maxsize = 2
    /\ Len(cache.items) = 2
    /\ Cardinality(sres.evicted) = 1
    /\ sres.before = NullSession
    /\ \E u \in StoreKeys \ {sres.key} : live_value(cache, u, now) # NullSession

\* C20: the store lock is not held by a chat request that waits for the
\* agent, and while it waits a store operation called by another request,
\* on the same key or on another one, runs to its end.
C20_LockFreeWhileWaiting ==
    /\ [](tpc.at = "waiting" => lock # "turn")
    /\ ((tpc.at = "waiting" /\ opc.at # "idle")
           ~> (opc.at = "idle" \/ tpc.at # "waiting"))

\* a reset of the key of the waiting chat request took the lock and returned
\* while the request was waiting
C20_Witness ==
    /\ tpc.at = "waiting" /\ lock = None
    /\ opc.at = "idle" /\ opc.during
    /\ opc.op = "reset" /\ opc.key = TurnKey

\* C21: for every attempt count n >= 1 compute_grade gives again when the
\* answer was revealed, and otherwise easy for n = 1, good for n = 2 and
\* n = 3, hard for n >= 4.
C21_GradeTable ==
    (call.fn = "compute_grade" /\ call.args[2] >= 1)
        => LET revealed == call.args[1]
               n == call.args[2]
           IN call.result = IF revealed THEN "again"
                            ELSE IF n = 1 THEN "easy"
                            ELSE IF n \in {2, 3} THEN "good"
                            ELSE "hard"

\* an unrevealed answer at the fourth attempt was graded hard
C21_Witness ==
    /\ call.fn = "compute_grade" /\ call.args = <<FALSE, 4>>
    /\ call.result = "hard"

\* C22: compute_grade raises ValueError and returns no grade for every
\* attempt count below 1, whether or not the answer was revealed.
C22_GradeRejectsNoAttempt ==
    (call.fn = "compute_grade" /\ call.args[2] < 1)
        => /\ call.result = "ValueError"
           /\ call.result \notin Grades

\* a revealed answer with attempt count 0 was rejected
C22_Witness ==
    /\ call.fn = "compute_grade" /\ call.args = <<TRUE, 0>>
    /\ call.result = "ValueError"

\* the calendar, one step at a time
MonthLength(y, mo) ==
    IF mo = 2 THEN (IF y % 4 = 0 /\ (y % 100 # 0 \/ y % 400 = 0) THEN 29 ELSE 28)
    ELSE IF mo \in {4, 6, 9, 11} THEN 30
    ELSE 31

NextDay(i) ==
    IF i.day < MonthLength(i.year, i.month) THEN [i EXCEPT !.day = @ + 1]
    ELSE IF i.month < 12 THEN [i EXCEPT !.day = 1, !.month = @ + 1]
    ELSE [i EXCEPT !.day = 1, !.month = 1, !.year = @ + 1]

NextHour(i) ==
    IF i.hour < 23 THEN [i EXCEPT !.hour = @ + 1] ELSE NextDay([i EXCEPT !.hour = 0])

NextMinute(i) ==
    IF i.minute < 59 THEN [i EXCEPT !.minute = @ + 1]
    ELSE NextHour([i EXCEPT !.minute = 0])

RECURSIVE DaysLater(_, _)
DaysLater(i, n) == IF n = 0 THEN i ELSE DaysLater(NextDay(i), n - 1)

RECURSIVE HoursLater(_, _)
HoursLater(i, n) == IF n = 0 THEN i ELSE HoursLater(NextHour(i), n - 1)

RECURSIVE MinutesLater(_, _)
MinutesLater(i, n) == IF n = 0 THEN i ELSE MinutesLater(NextMinute(i), n - 1)

\* C23: the due date is exactly 2 minutes after the grading time for again,
\* 10 minutes for hard, 24 hours for good and 4 days for easy, on the
\* calendar and across day, month and year ends; any other grade is rejected
\* and gives no due date.
C23_DueDateOffsets ==
    call.fn = "due_at"
        => LET T == call.args[1]
               grade == call.args[2]
           IN /\ grade = "again" => call.result = [ok |-> TRUE, value |-> MinutesLater(T, 2)]
              /\ grade = "hard" => call.result = [ok |-> TRUE, value |-> MinutesLater(T, 10)]
              /\ grade = "good" => call.result = [ok |-> TRUE, value |-> HoursLater(T, 24)]
              /\ grade = "easy" => call.result = [ok |-> TRUE, value |-> DaysLater(T, 4)]
              /\ grade \notin {"again", "hard", "good", "easy"} => ~call.result.ok

\* easy at the end of February of a leap year is due in March, and hard at
\* ten minutes to midnight on 31 December is due in the next year
C23_Witness ==
    /\ call.fn = "due_at"
    /\ \/ /\ call.args = <<Iso(2024, 2, 28, 23, 50, 59), "easy">>
          /\ call.result.value = Iso(2024, 3, 3, 23, 50, 59)
       \/ /\ call.args = <<Iso(2025, 12, 31, 23, 50, 59), "hard">>
          /\ call.result.value = Iso(2026, 1, 1, 0, 0, 59)

\* the last operation was a grading that was persisted
Submitted == call.fn = "submit_card_review_grade" /\ call.result.ok

\* the (easeFactor, repetitions, intervalDays) of a card
Triple(card) == <<card.easeFactor, card.repetitions, card.intervalDays>>

\* the quality a grade stands for
QualityOf(grade) ==
    IF grade = "again" THEN 0 ELSE IF grade = "hard" THEN 3
    ELSE IF grade = "good" THEN 4 ELSE 5

\* the change of the ease factor, in hundredths, for the qualities 0..5
EaseDelta(q) == <<0 - 80, 0 - 54, 0 - 32, 0 - 14, 0, 10>>[q + 1]

\* the exact values n, 100 * x and |x - y|
Whole(n) == <<n, 0, 0, 0, 0>>
Hundredfold(x) == Carry[<<100 * x[1], 100 * x[2], 100 * x[3], 100 * x[4], 100 * x[5]>>]
Distance(x, y) ==
    LET d == Carry[<<x[1] - y[1], x[2] - y[2], x[3] - y[3], x[4] - y[4], x[5] - y[5]>>]
    IN IF d[1] < 0 THEN FloatNeg[d] ELSE d

\* what the roundings of a few double operations can add up to: 2^-40
Rounding == <<0, 0, 0, 32, 0>>

\* the float x is h hundredths, up to rounding
IsHundredths(x, h) == ~FloatLess(Rounding, Distance(Hundredfold(x), Whole(h)))

\* the float x is max(1.3, ef + change / 100), up to rounding
IsClampedSum(x, ef, change) ==
    LET sum == Carry[<<100 * ef[1] + change, 100 * ef[2], 100 * ef[3], 100 * ef[4],
                       100 * ef[5]>>]
        clamped == IF FloatLess(sum, Whole(130)) THEN Whole(130) ELSE sum
    IN ~FloatLess(Rounding, Distance(Hundredfold(x), clamped))

\* C24: two cards that were last graded with the same grade at the same time
\* (the time apply_review_grade read first) have the same dueAt, whatever their
\* ease factor, repetitions and interval are; each grading still stores the
\* updated triple of the card.
C24_DueDateIgnoresTriple ==
    /\ \A c, d \in CardIds :
          (/\ cards[c].lastGrade # None
           /\ cards[c].lastGrade = cards[d].lastGrade
           /\ GradedAt[c] = GradedAt[d])
             => cards[c].dueAt = cards[d].dueAt
    /\ Submitted
          => LET c == call.args[1]
                 b == call.result.before
                 r == apply_sm2(b.easeFactor, b.repetitions, b.intervalDays,
                                QualityOf(cards[c].lastGrade))
             IN Triple(cards[c]) = <<r.ease_factor, r.repetitions, r.interval_days>>

\* two cards graded good at the same time are due together although one has
\* interval 6 and the other interval 1
C24_Witness ==
    /\ Submitted
    /\ cards["c1"].lastGrade = "good" /\ cards["c2"].lastGrade = "good"
    /\ GradedAt["c1"] = GradedAt["c2"]
    /\ cards["c1"].dueAt = cards["c2"].dueAt
    /\ cards["c1"].intervalDays = 6 /\ cards["c2"].intervalDays = 1
    /\ call.result.before.easeFactor # cards[call.args[1]].easeFactor
          \/ cards["c1"].easeFactor # cards["c2"].easeFactor

\* C25: a grading with grade g at time T stores the triple that apply_sm2
\* gives for the previous triple and the quality of g (again 0, hard 3,
\* good 4, easy 5), lastGrade = g and lastGradedAt = lastReviewedAt = T, the
\* time apply_review_grade read for these two fields, and leaves deck, owner,
\* front and back of the card as they were.
C25_GradingPersistsSrsFields ==
    Submitted
        => LET c == call.args[1]
               b == call.result.before
               a == cards[c]
               g == compute_grade(call.args[2], call.args[3])
               r == apply_sm2(b.easeFactor, b.repetitions, b.intervalDays, QualityOf(g))
           IN /\ g \in Grades
              /\ Triple(a) = <<r.ease_factor, r.repetitions, r.interval_days>>
              /\ a.lastGrade = g
              /\ a.lastGradedAt = call.result.reads[2]
              /\ a.lastReviewedAt = call.result.reads[2]
              /\ a.present = b.present /\ a.deckId = b.deckId /\ a.userId = b.userId
              /\ a.front = b.front /\ a.back = b.back

\* a card that had been graded before was graded hard
C25_Witness ==
    /\ Submitted
    /\ call.result.before.lastGrade # None
    /\ cards[call.args[1]].lastGrade = "hard"
    /\ cards[call.args[1]].lastGradedAt = now /\ now > 0

\* C26: for the qualities 0, 1 and 2 and every starting state apply_sm2
\* returns repetitions 0 and interval 1, with an ease factor of at least 1.3.
C26_LapseResets ==
    (call.fn = "apply_sm2" /\ call.args[4] \in 0 .. 2)
        => /\ call.result.ok
           /\ call.result.repetitions = 0
           /\ call.result.interval_days = 1
           /\ ~FloatLess(call.result.ease_factor, float_literal(130))

\* a lapse from the minimal ease factor, after three repetitions
C26_Witness ==
    /\ call.fn = "apply_sm2" /\ call.args = <<float_literal(130), 3, 16, 0>>
    /\ call.result.ease_factor = float_literal(130) /\ call.result.repetitions = 0

\* n is max(1, iv * ef rounded to an integer), the product taken exactly and
\* the rounding up to the rounding of the product to a double
RoundedAtLeastOne(n, iv, ef) ==
    LET product == Carry[<<iv * ef[1], iv * ef[2], iv * ef[3], iv * ef[4], iv * ef[5]>>]
        half == <<0, LimbBase \div 2, 0, 0, 0>>
    IN \/ n >= 1 /\ ~FloatLess(Carry[<<0, half[2], 0, Rounding[4], 0>>],
                               Distance(Whole(n), product))
       \/ n = 1 /\ FloatLess(product, half)

\* C27: for the qualities 3, 4 and 5 apply_sm2 returns repetitions + 1 and
\* the interval 1 for the first repetition, 6 for the second and
\* max(1, round(interval * new ease factor)) after that; three updates with
\* quality 4 of a fresh state give (1, 1), (2, 6), (3, round(6 * 2.5)).
C27_SuccessIntervals ==
    (call.fn = "apply_sm2" /\ call.args[4] \in 3 .. 5)
        => LET reps == call.args[2]
               iv == call.args[3]
               r == call.result
           IN /\ r.ok
              /\ r.repetitions = reps + 1
              /\ r.repetitions = 1 => r.interval_days = 1
              /\ r.repetitions = 2 => r.interval_days = 6
              /\ r.repetitions > 2
                    => RoundedAtLeastOne(r.interval_days, iv, r.ease_factor)
              /\ call.args = <<float_literal(250), 0, 0, 4>>
                    => /\ IsHundredths(r.ease_factor, 250)
                       /\ <<r.repetitions, r.interval_days>> = <<1, 1>>
              /\ call.args = <<float_literal(250), 1, 1, 4>>
                    => /\ IsHundredths(r.ease_factor, 250)
                       /\ <<r.repetitions, r.interval_days>> = <<2, 6>>
              /\ call.args = <<float_literal(250), 2, 6, 4>>
                    => /\ IsHundredths(r.ease_factor, 250)
                       /\ <<r.repetitions, r.interval_days>> = <<3, 15>>

\* a third repetition with quality 5: the interval 16 is multiplied by the
\* new ease factor 2.7, not by the old 2.6
C27_Witness ==
    /\ call.fn = "apply_sm2" /\ call.args = <<float_literal(260), 2, 16, 5>>
    /\ call.result.repetitions = 3 /\ call.result.interval_days = 43

\* C28: for the qualities 0..5 the new ease factor is
\* max(1.3, ease factor + 0.1 - (5-q)*(0.08 + (5-q)*0.02)), and the stored
\* ease factor of a card is at least 1.3 after any sequence of gradings.
C28_EaseFactorFloor ==
    /\ (call.fn = "apply_sm2" /\ call.args[4] \in 0 .. 5)
          => /\ IsClampedSum(call.result.ease_factor, call.args[1],
                              EaseDelta(call.args[4]))
             /\ ~FloatLess(call.result.ease_factor, float_literal(130))
    /\ \A c \in CardIds : ~FloatLess(cards[c].easeFactor, float_literal(130))
    /\ Submitted
          => IsClampedSum(cards[call.args[1]].easeFactor, call.result.before.easeFactor,
                          EaseDelta(QualityOf(cards[call.args[1]].lastGrade)))

\* a card at ease factor 1.7 was graded again: 0.9 is raised to 1.3
C28_Witness ==
    /\ Submitted
    /\ IsHundredths(call.result.before.easeFactor, 170)
    /\ cards[call.args[1]].lastGrade = "again"
    /\ cards[call.args[1]].easeFactor = float_literal(130)

\* C29: apply_sm2 raises ValueError and returns no state for every quality
\* below 0 or above 5, for every starting state.
C29_QualityOutOfRange ==
    (call.fn = "apply_sm2" /\ (call.args[4] < 0 \/ call.args[4] > 5))
        => ~call.result.ok

\* quality 6 on a state with repetitions was rejected
C29_Witness ==
    /\ call.fn = "apply_sm2" /\ call.args = <<float_literal(250), 2, 6, 6>>
    /\ ~call.result.ok

\* C30: while a session stays stored under its key, its conversation id and
\* its creation time do not change, whatever a handler does to it (a turn, a
\* new card, a switch to free mode, a reset of the context, get_or_create
\* with another card); the id always is the one generated from the key and
\* the creation time, so it changes only with a re-creation.
C30_ConversationIdStable ==
    [][/\ \A k \in DOMAIN store \cap DOMAIN store' :
             /\ store'[k].ui_conversation_id = store[k].ui_conversation_id
             /\ store'[k].created_at = store[k].created_at
       /\ \A k \in DOMAIN store' :
             /\ store'[k].ui_conversation_id =
                    generate_conversation_id(Learner, k, utc_now_text(store'[k].created_at))
             /\ k \notin DOMAIN store
                   => now <= store'[k].created_at /\ store'[k].created_at <= now']_vars

\* a session created earlier has resolved a card and moved on to another
\* card or to free mode under the same conversation id
C30_Witness ==
    /\ ev.op = "turn" /\ ev.graded # None
    /\ ev.key \in DOMAIN store
    /\ store[ev.key].created_at < now
    /\ store[ev.key].card_id # ev.graded
    /\ store[ev.key].ui_conversation_id =
           generate_conversation_id(Learner, ev.key, utc_now_text(store[ev.key].created_at))

----------------------------------------------------------------------------
\* C31: the conversation id is a function of (learner, topic, creation time) that
\* gives equal ids for equal triples and different ids for triples that differ in
\* the learner, the topic or the creation time.
C31_ConversationIdOneToOne ==
    call.fn = "generate_conversation_id" =>
        \A u \in IdLearners, d \in IdDecks, t \in IdTimes :
            (generate_conversation_id(u, d, t) = call.result) <=> (<<u, d, t>> = call.args)

\* equal triples give equal ids (the half of C31 that holds)
C31_SameTripleSameId ==
    call.fn = "generate_conversation_id" =>
        call.result = generate_conversation_id(call.args[1], call.args[2], call.args[3])

----------------------------------------------------------------------------
\* C32: a turn that arrives while the session is in card mode on a card whose
\* resolved_at is already set is handled as an advance: when the turn has been
\* answered the stored session is in card mode on the next due card with fresh
\* counters if a card is due, and in free mode otherwise; it is never still in card
\* mode with resolved_at set.
C32_ResolvedTurnAdvances ==
    (/\ ev.op = "turn"
     /\ ev.phase # "first"
     /\ ev.handler = "card"
     /\ ev.arrResolved
     /\ resp.status = HTTP_OK)
        => /\ ev.key \in DOMAIN store
           /\ ~is_resolved(store[ev.key])
           /\ IF DueCards(cards, ev.key, now) # {}
              THEN /\ store[ev.key].mode = "card"
                   /\ store[ev.key].card_id \in DueCards(cards, ev.key, now)
                   /\ Fresh(store[ev.key])
              ELSE store[ev.key].mode = "free"

----------------------------------------------------------------------------
\* C33: a resolution always triggers an advance: in every state between two
\* requests, also after a turn in which grading or persistence failed, a stored
\* session in card mode has resolved_at unset.
C33_StoredCardSessionUnresolved ==
    \A k \in DOMAIN store : store[k].mode = "card" => ~is_resolved(store[k])

----------------------------------------------------------------------------
\* C34: starting a session for a key whose stored session is already in card mode
\* on the card that is still the next due card leaves attempt_count,
\* explicit_reveal_request_count and the history of that session unchanged.
C34_RestartKeepsCounters ==
    [][\A k \in DOMAIN store :
          (/\ ev'.op = "start"
           /\ ev'.key = k
           /\ store[k].mode = "card"
           /\ ev'.selDue = store[k].card_id)
              => /\ k \in DOMAIN store'
                 /\ store'[k].attempt_count = store[k].attempt_count
                 /\ store'[k].explicit_reveal_request_count
                        = store[k].explicit_reveal_request_count
                 /\ store'[k].msgs = store[k].msgs]_vars

----------------------------------------------------------------------------
\* C35: for any interleaving of concurrent turns on one key, each activation of a
\* card leads to at most one persisted grade for that card, and the grade is
\* written to the card that is the session's active card when the verdict is
\* applied.
C35_OneGradePerActivation ==
    /\ \A i, j \in DOMAIN conc.grades :
          (/\ i # j
           /\ conc.grades[i].card = conc.grades[j].card)
              => conc.grades[i].act # conc.grades[j].act
    /\ \A i \in DOMAIN conc.grades : conc.grades[i].card = conc.grades[i].active

----------------------------------------------------------------------------
\* C36: in every execution, also with concurrent turns on one key, compute_grade
\* is called by the card handler only with attempt_count >= 1, so a resolving
\* turn never fails with ValueError.
C36_GradeCalledWithAttempt ==
    /\ \A c \in conc.calls : c[2] >= 1 /\ compute_grade(c[1], c[2]) # "ValueError"
    /\ \A r \in DOMAIN conc.reqs : conc.reqs[r].status # HTTP_ERROR

----------------------------------------------------------------------------
\* C37: every successful response of start_learning_session or chat_with_tutor
\* carries a card exactly if its mode is card, and its mode and card are the mode
\* and card_id of the session stored under the key when the operation ends.
C37_ResponseMatchesSession ==
    (ev.op \in {"start", "turn"} /\ ev.phase # "first" /\ resp.status = HTTP_OK)
        => /\ (resp.card # None) <=> (resp.mode = "card")
           /\ ev.key \in DOMAIN store
           /\ resp.mode = store[ev.key].mode
           /\ resp.card = store[ev.key].card_id

----------------------------------------------------------------------------
\* C38: a store operation or a turn for one key never changes the content of the
\* session stored under another key (mode, card, counters, history, conversation
\* id); the only effect it can have on the other key is that its entry is removed
\* to make room when a new key is admitted to a full store.
C38_OtherKeysUntouched ==
    [][sres'.op \in {"get", "get_or_create", "get_or_create_session", "update", "reset"}
          => \A k2 \in StoreKeys \ {sres'.key} :
                LET before == live_value(cache, k2, now)
                    after == live_value(cache', k2, now')
                IN /\ after # NullSession => after = before
                   /\ (before # NullSession /\ after = NullSession)
                         => /\ sres'.op \in {"get_or_create", "get_or_create_session",
                                             "update"}
                            /\ live_value(cache, sres'.key, now) = NullSession
                            /\ Cardinality(LiveKeys(cache, now)) = cache.maxsize]_vars

\* the session of one key was switched to another card while the session of
\* another key, with a turn recorded in it, stayed as it was
C38_Witness ==
    /\ sres.op = "get_or_create"
    /\ sres.before # NullSession
    /\ sres.before.card_id # sres.card
    /\ sres.state.card_id = sres.card
    /\ \E k2 \in StoreKeys \ {sres.key} :
          /\ live_value(cache, k2, now) # NullSession
          /\ live_value(cache, k2, now).attempt_count > 0

\* C39: while no card is added, a session that keeps receiving turns persists
\* exactly one grade for each card that was due at the start on its way to
\* free mode: a card that carries a grade is graded again only when it has
\* become due again.
C39_OneGradePerDueCard ==
    [][\A c \in CardIds :
          (/\ ev'.op = "turn" /\ ev'.graded = c
           /\ cards[c].lastGrade # None)
              => cards[c].dueAt <= now']_vars

====
